---- MODULE Spec2Model ----
(***************************************************************************)
(* Model of the LWC generation / preview / deploy API server               *)
(* (api/server.mjs and its light-DOM variant).                              *)
(*                                                                         *)
(* Text is modelled at token level.  A markup text is a sequence of        *)
(* tokens, each token a sequence of strings whose head is its kind:        *)
(*   <<"ws">>                      a run of whitespace between tags         *)
(*   <<"open", tag>>               "<tag"  (start of a start tag)           *)
(*   <<"gt">>                      ">"     (end of a start tag)             *)
(*   <<"close", tag>>              "</tag>"                                 *)
(*   <<"text", t>>                 character data                           *)
(*   <<"nl">>                      a line break between tags                *)
(*   <<"frag", t>>                 a piece of a tag: "<scr" directly        *)
(*                                 followed by "ipt" reads "<script"        *)
(*   <<"battr", name>>             an attribute without "=" (disabled)      *)
(*   <<"attr", name, value>>       name="value"                             *)
(*   <<"class", "static", v>>      class="v"                                *)
(*   <<"class", "dyn", e...>>      class={e}                                *)
(*   <<"ev", dialect, event, handler, shape>>   an event binding:           *)
(*        dialect "at"      @event="..."        "paren"  (event)="..."      *)
(*                "quoted"  onevent="..."       "squoted" onevent='...'     *)
(*                "this"    onevent={this.h}    "braced" onevent={...}      *)
(*        shape   "bare"  h      "call"  h()      "args"  h(x)              *)
(* Attribute tokens inside a start tag are separated by whitespace.        *)
(* A behavior (JS) text is a sequence of string tokens: identifiers,       *)
(* punctuation, and the fixed class header text HDR as one token.           *)
(***************************************************************************)
EXTENDS Integers, Sequences, FiniteSets, TLC

VARIABLES
    variant,    \* which server build runs: "std" (api/server.mjs) or "light"
    store,      \* the Artifact Store: the three files under GEN_DIR
    req,        \* the request being served by the store routes
    dep,        \* the deploy request being served
    now,        \* the wall clock (Date.now()) seen by the deploy request
    req2,       \* a second store request in flight at the same time as req
    call        \* one call of a helper function: its name, argument, result

vars == <<variant, store, req, dep, now, req2, call>>

(***************************************************************************)
(* Bounds                                                                  *)
(***************************************************************************)
MaxTimeout == 2
MaxInterval == 1
MaxPollDur == 1
MaxJitter == 1
MaxSpin == 1
MaxNameLen == 2
MaxTargets == 3
MaxAttrs == 3
MaxHandlers == 2
MaxItems == 2
MaxInFlight == 2

(***************************************************************************)
(* Generic helpers                                                         *)
(***************************************************************************)
SeqsUpTo(S, n) == UNION { [1..k -> S] : k \in 0..n }

RECURSIVE Concat(_)
Concat(ss) == IF ss = <<>> THEN <<>> ELSE Head(ss) \o Concat(Tail(ss))

FirstIndex(S) == CHOOSE i \in S : \A j \in S : i <= j

Range(s) == { s[i] : i \in 1..Len(s) }

(***************************************************************************)
(* Markup Normalizer: sanitizeHtml                                          *)
(***************************************************************************)
Kind(tok) == tok[1]

IsScriptOpen(tok) == Kind(tok) = "open" /\ tok[2] \in {"script", "SCRIPT"}

IsScriptClose(tok) == Kind(tok) = "close" /\ tok[2] \in {"script", "SCRIPT"}

\* a token whose text contains the character ">"
HasGt(tok) == Kind(tok) \in {"gt", "close"}

\* /<script\b[^>]*>[\s\S]*?<\/script>/gi : the end of the match that starts at
\* token i (0 when the pattern does not match there)
ScriptRegionEnd(s, i) ==
    IF ~IsScriptOpen(s[i]) THEN 0
    ELSE LET gts == { j \in (i+1)..Len(s) : HasGt(s[j]) }
         IN  IF gts = {} THEN 0
             ELSE LET j == FirstIndex(gts)
                      ends == { k \in (j+1)..Len(s) : IsScriptClose(s[k]) }
                  IN  IF ends = {} THEN 0 ELSE FirstIndex(ends)

\* one left-to-right pass of the replace: every match is cut out
RECURSIVE RemoveScriptRegions(_)
RemoveScriptRegions(s) ==
    IF s = <<>> THEN <<>>
    ELSE LET e == ScriptRegionEnd(s, 1)
         IN  IF e = 0 THEN <<Head(s)>> \o RemoveScriptRegions(Tail(s))
             ELSE RemoveScriptRegions(SubSeq(s, e + 1, Len(s)))

\* the result is text again: the pieces left and right of a cut are joined
RECURSIVE Fuse(_)
Fuse(s) ==
    IF Len(s) < 2 THEN s
    ELSE IF s[1] = <<"frag", "<scr">> /\ s[2] = <<"frag", "ipt">>
         THEN << <<"open", "script">> >> \o Fuse(SubSeq(s, 3, Len(s)))
         ELSE <<Head(s)>> \o Fuse(Tail(s))

\* s.replace(/<script\b[^>]*>[\s\S]*?<\/script>/gi, '')     (line 54)
StripScripts(s) == Fuse(RemoveScriptRegions(s))

\* class="..." and class={...}; attribute names that merely end in "class"
\* (data-class) are not part of the token universe
IsStaticClass(tok) == Kind(tok) = "class" /\ tok[2] = "static" /\ Len(tok) > 2

IsDynClass(tok) == Kind(tok) = "class" /\ tok[2] = "dyn" /\ Len(tok) > 2

\* String(staticPart).replace(/\s+/g, ' ').trim() : the words of the literal; an
\* item "_" of the literal is a surplus run of whitespace
CleanStatic(words) == SelectSeq(words, LAMBDA w : w # "_")

\* `class={mergeClasses("${escapedStatic}", ${expression})}`
mergeClassAttributes(staticTok, dynTok) ==
    <<"class", "dyn", "mergeClasses", "(", "q">>
        \o CleanStatic(SubSeq(staticTok, 3, Len(staticTok)))
        \o <<"q", ",">> \o SubSeq(dynTok, 3, Len(dynTok)) \o <<")">>

\* s.replace(staticThenDynamic, ...): class="..." class={...} followed by
\* whitespace or ">"
RECURSIVE MergeStaticThenDynamic(_)
MergeStaticThenDynamic(s) ==
    IF Len(s) < 3 THEN s
    ELSE IF IsStaticClass(s[1]) /\ IsDynClass(s[2])
         THEN <<mergeClassAttributes(s[1], s[2])>>
                  \o MergeStaticThenDynamic(SubSeq(s, 3, Len(s)))
         ELSE <<Head(s)>> \o MergeStaticThenDynamic(Tail(s))

\* a token whose text ends with "}"
EndsWithBrace(tok) ==
    \/ IsDynClass(tok)
    \/ Kind(tok) = "ev" /\ tok[2] \in {"braced", "this"}

\* dynamicThenStatic = /class={(.+?)}\s+class="([^"]+)"(\s|>)/g matched from the
\* class={ that opens s[i]: the lazy (.+?) stops at the first "}" that is
\* followed by whitespace and class="..."; "." does not cross a line break.
\* The token holding that "}" (0 when there is no match from s[i]).
LazyEnd(s, i) ==
    LET ends == { j \in i..(Len(s) - 2) :
                    /\ EndsWithBrace(s[j]) /\ IsStaticClass(s[j + 1])
                    /\ \A k \in i..j : s[k] # <<"nl">> }
    IN  IF ends = {} THEN 0 ELSE FirstIndex(ends)

\* the text class={mergeClasses("static", expr} that opens a match whose
\* (.+?) ran on past the "}" of the first class={...}
GarbleHead(staticTok, dynTok) ==
    <<"class", "dyn", "mergeClasses", "(", "q">>
        \o CleanStatic(SubSeq(staticTok, 3, Len(staticTok)))
        \o <<"q", ",">> \o SubSeq(dynTok, 3, Len(dynTok)) \o <<"}">>

\* the token that held the closing "}" of such a match: its text now ends
\* with ")}"
GarbleTail(tok) ==
    IF Kind(tok) = "ev" THEN [tok EXCEPT ![5] = "garbled"] ELSE Append(tok, ")")

RECURSIVE MergeDynamicThenStatic(_)

\* the replacement made at the head of s when the match from s[1] ends at
\* token j (0: no match; 1: the pair is side by side)
ReplaceMatch(s, j) ==
    IF j = 0 THEN <<Head(s)>> \o MergeDynamicThenStatic(Tail(s))
    ELSE IF j = 1
    THEN <<mergeClassAttributes(s[2], s[1])>>
             \o MergeDynamicThenStatic(SubSeq(s, 3, Len(s)))
    ELSE <<GarbleHead(s[j + 1], s[1])>> \o SubSeq(s, 2, j - 1)
             \o <<GarbleTail(s[j])>>
             \o MergeDynamicThenStatic(SubSeq(s, j + 2, Len(s)))

\* s.replace(dynamicThenStatic, ...)
MergeDynamicThenStatic(s) ==
    IF Len(s) < 3 THEN s
    ELSE ReplaceMatch(s, IF IsDynClass(s[1]) THEN LazyEnd(s, 1) ELSE 0)

LowerEvents == {"click", "change"}

Canonical(tok) == <<"ev", "braced", tok[3], tok[4], "bare">>

\* the five event-binding rewrites of lines 71-79, in order; every pattern asks
\* for a lower-case event name and a bare identifier with an optional "()"
ConvertAt(tok) ==
    IF Kind(tok) = "ev" /\ tok[2] = "at" /\ tok[3] \in LowerEvents
       /\ tok[5] \in {"bare", "call"}
    THEN Canonical(tok) ELSE tok

ConvertParen(tok) ==
    IF Kind(tok) = "ev" /\ tok[2] = "paren" /\ tok[3] \in LowerEvents
       /\ tok[5] \in {"bare", "call"}
    THEN Canonical(tok) ELSE tok

ConvertQuotedCall(tok) ==
    IF Kind(tok) = "ev" /\ tok[2] = "quoted" /\ tok[3] \in LowerEvents
       /\ tok[5] = "call"
    THEN Canonical(tok) ELSE tok

ConvertQuotedBare(tok) ==
    IF Kind(tok) = "ev" /\ tok[2] = "quoted" /\ tok[3] \in LowerEvents
       /\ tok[5] = "bare"
    THEN Canonical(tok) ELSE tok

ConvertThis(tok) ==
    IF Kind(tok) = "ev" /\ tok[2] = "this" /\ tok[3] \in LowerEvents
       /\ tok[5] = "bare"
    THEN Canonical(tok) ELSE tok

ConvertEvents(s) ==
    [i \in 1..Len(s) |->
        ConvertThis(ConvertQuotedBare(ConvertQuotedCall(ConvertParen(ConvertAt(s[i])))))]

\* /\son[a-z]+\s*=\s*["']/i : an on-attribute that still holds a quoted value
InlineHandlerRemains(s) ==
    \E i \in 1..Len(s) : Kind(s[i]) = "ev" /\ s[i][2] \in {"quoted", "squoted"}

\* the names attrRe finds in one attribute: the token before "="
AttrNames(tok) ==
    CASE Kind(tok) = "attr" -> <<<<tok[2]>>>>
      [] Kind(tok) = "class" -> <<<<"class">>>>
      [] Kind(tok) = "ev" /\ tok[2] \in {"quoted", "squoted", "this", "braced"}
            -> <<<<"on", tok[3]>>>>
      [] Kind(tok) = "ev" /\ tok[2] = "at" -> <<<<tok[3]>>>>
      [] OTHER -> <<>>

\* attrTagRe: the attribute chunk of the start tag opening at i: the tokens up
\* to the first ">" with no "<" before it (<<>> when there is none)
AttrChunk(s, i) ==
    LET stops == { j \in (i+1)..Len(s) : Kind(s[j]) \in {"gt", "open", "close"} }
    IN  IF stops = {} THEN <<>>
        ELSE LET j == FirstIndex(stops)
             IN  IF Kind(s[j]) = "gt" THEN SubSeq(s, i + 1, j - 1) ELSE <<>>

ChunkNames(chunk) == Concat([k \in 1..Len(chunk) |-> AttrNames(chunk[k])])

\* the first repeated name of a name list, <<>> when no name repeats
FirstDuplicate(names) ==
    LET dups == { k \in 1..Len(names) : \E m \in 1..(k-1) : names[m] = names[k] }
    IN  IF dups = {} THEN <<>> ELSE names[FirstIndex(dups)]

\* the duplicate the scan of lines 86-103 throws on first, <<>> when none
DuplicateAttribute(s) ==
    LET bad == { i \in 1..Len(s) :
                   Kind(s[i]) = "open" /\ FirstDuplicate(ChunkNames(AttrChunk(s, i))) # <<>> }
    IN  IF bad = {} THEN <<>>
        ELSE FirstDuplicate(ChunkNames(AttrChunk(s, FirstIndex(bad))))

RECURSIVE TrimLeft(_)
TrimLeft(s) ==
    IF s # <<>> /\ Head(s) \in {<<"ws">>, <<"nl">>} THEN TrimLeft(Tail(s)) ELSE s

RECURSIVE TrimRight(_)
TrimRight(s) ==
    IF s # <<>> /\ s[Len(s)] \in {<<"ws">>, <<"nl">>}
    THEN TrimRight(SubSeq(s, 1, Len(s) - 1)) ELSE s

Trim(s) == TrimRight(TrimLeft(s))

InlineHandlerError == "Inline event handlers must use LWC syntax, e.g. onclick={handleClick}."

DuplicateAttributeError == "Duplicate attribute detected in HTML."

\* sanitizeHtml(html, info): ok = FALSE when it throws; merge is info.mergeClasses
sanitizeHtml(html) ==
    LET s1 == StripScripts(html)
        s2 == MergeStaticThenDynamic(s1)
        s3 == MergeDynamicThenStatic(s2)
        s4 == ConvertEvents(s3)
        merged == s3 # s1
    IN  IF InlineHandlerRemains(s4)
        THEN [ok |-> FALSE, html |-> <<>>, merge |-> merged,
              err |-> InlineHandlerError, attr |-> <<>>]
        ELSE IF DuplicateAttribute(s4) # <<>>
        THEN [ok |-> FALSE, html |-> <<>>, merge |-> merged,
              err |-> DuplicateAttributeError, attr |-> DuplicateAttribute(s4)]
        ELSE [ok |-> TRUE, html |-> Trim(s4), merge |-> merged,
              err |-> "", attr |-> <<>>]

(***************************************************************************)
(* Behavior Consistency Enforcer                                           *)
(***************************************************************************)
HDR == "export default class Preview extends LightningElement"

\* the positions where classHeaderRe (header text, \s*, "{") matches
classHeaderRe(code) ==
    { i \in 1..(Len(code) - 1) : code[i] = HDR /\ code[i + 1] = "{" }

\* code.replace(classHeaderRe, (m) => m + ins): the first match only
InsertAfterHeader(code, ins) ==
    LET i == FirstIndex(classHeaderRe(code))
    IN  SubSeq(code, 1, i + 1) \o ins \o SubSeq(code, i + 2, Len(code))

\* new RegExp(`\\b${name}\\s*\\(`).test(code)
NameThenParen(code, name) ==
    \E i \in 1..(Len(code) - 1) : code[i] = name /\ code[i + 1] = "("

StubAsField(n) == <<n, "=", "(", "event", ")", "=>", "{", "}">>

\* `${n}(event) { /* auto-added */ }\n`
Stub(n) == <<n, "(", "event", ")", "{", "/* auto-added */", "}">>

MissingHandlers(code, handlerNames) ==
    SelectSeq(handlerNames, LAMBDA n : ~NameThenParen(code, n))

MissingClassError == "JS must export class Preview extends LightningElement."

\* ensureHandlerStubs(js, handlerNames): ok = FALSE when it throws
ensureHandlerStubs(js, handlerNames) ==
    IF classHeaderRe(js) = {}
    THEN [ok |-> FALSE, code |-> js, err |-> MissingClassError]
    ELSE LET missing == MissingHandlers(js, handlerNames)
         IN  [ok |-> TRUE,
              code |-> IF Len(missing) > 0
                       THEN InsertAfterHeader(js,
                                Concat([k \in 1..Len(missing) |-> Stub(missing[k])]))
                       ELSE js,
              err |-> ""]

\* helperBody: mergeClasses(...parts) { return parts.flat(Infinity)... }
helperBody == <<"mergeClasses", "(", "...parts", ")", "{", "flat-trim-join", "}">>

\* ensureMergeClasses(js)
ensureMergeClasses(js) ==
    IF NameThenParen(js, "mergeClasses") THEN js
    ELSE IF classHeaderRe(js) = {} THEN js
    ELSE InsertAfterHeader(js, helperBody)

\* html.matchAll(/on[a-z]+\s*=\s*{\s*([A-Za-z_]\w*)\s*}/g).map(m => m[1])
IsCanonicalBinding(tok) ==
    Kind(tok) = "ev" /\ tok[2] = "braced" /\ tok[3] \in LowerEvents /\ tok[5] = "bare"

extractHandlerNames(html) ==
    LET b == SelectSeq(html, IsCanonicalBinding)
    IN  [k \in 1..Len(b) |-> b[k][4]]

\* html.includes('<template')
HasTemplate(html) == \E i \in 1..Len(html) : html[i] = <<"open", "template">>

HasClassTextLoose(js) == TRUE

\* /export\s+default\s+class\s+Preview\s+extends\s+LightningElement/.test(js)
HasClassText(js) == \E i \in 1..Len(js) : js[i] = HDR

RenderModeAttr == <<"attr", "lwc:render-mode", "light">>

StaticRenderMode == "static renderMode = 'light';"

\* ensureLightTemplate(html)  (light variant)
ensureLightTemplate(html) ==
    IF ~HasTemplate(html) THEN html
    ELSE IF \E i \in 1..Len(html) : html[i] = RenderModeAttr THEN html
    ELSE LET t == FirstIndex({ i \in 1..Len(html) : html[i] = <<"open", "template">> })
             gts == { j \in (t+1)..Len(html) : HasGt(html[j]) }
         IN  IF gts = {} \/ Kind(html[FirstIndex(gts)]) # "gt" THEN html
             ELSE LET j == FirstIndex(gts)
                  IN  SubSeq(html, 1, j - 1) \o <<RenderModeAttr>>
                          \o SubSeq(html, j, Len(html))

\* ensureLightClass(js)  (light variant)
ensureLightClass(js) ==
    IF \E i \in 1..Len(js) : js[i] = StaticRenderMode THEN js
    ELSE IF classHeaderRe(js) = {} THEN js
    ELSE InsertAfterHeader(js, <<StaticRenderMode>>)

(***************************************************************************)
(* Artifact Store and its routes: POST /api/generate, POST /api/preview,   *)
(* POST /api/reset                                                         *)
(***************************************************************************)
StubCss == ":host{display:block;}"

STUB ==
    [html |-> << <<"open", "template">>, <<"gt">>, <<"open", "div">>,
                 <<"attr", "style", "padding">>, <<"gt">>, <<"text", "Waiting">>,
                 <<"close", "div">>, <<"close", "template">> >>,
     js   |-> <<"import", HDR, "{", "}">>,
     css  |-> StubCss]

NoBundle == [html |-> <<>>, js |-> <<>>, css |-> ""]

\* the order of the writeFile calls of writePreviewFiles
WriteOrder == <<"html", "js", "css">>

\* no helper call is being observed
NoCall == [fn |-> "none", done |-> FALSE]

Idle ==
    [kind |-> "none", pc |-> "idle", raw |-> NoBundle, out |-> NoBundle,
     written |-> <<>>, status |-> 0, err |-> "", body |-> NoBundle]

MissingTemplateError == "HTML must contain <template>...</template>"

MissingClassTextError == "JS must export class Preview extends LightningElement"

HandlerSourceRaw(rawHtml, html) == rawHtml

\* which markup the handler names are read from (lines 395-396)
HandlerSource(rawHtml, html) == html

\* lines 378-400 of POST /api/generate: the synchronous stretch between the
\* AI reply and the first write; status 200 means "go on to write out"
GenPipeline(v, parsed) ==
    LET san   == sanitizeHtml(parsed.html)
        htmlL == IF v = "light" THEN ensureLightTemplate(san.html) ELSE san.html
        jsL   == IF v = "light" THEN ensureLightClass(parsed.js) ELSE parsed.js
        js1   == IF san.merge THEN ensureMergeClasses(jsL) ELSE jsL
        names == extractHandlerNames(HandlerSource(parsed.html, htmlL))
        st    == ensureHandlerStubs(js1, names)
        js3   == IF san.merge THEN ensureMergeClasses(st.code) ELSE st.code
    IN  IF ~san.ok THEN [status |-> 500, err |-> san.err, out |-> NoBundle]
        ELSE IF ~HasTemplate(htmlL)
        THEN [status |-> 422, err |-> MissingTemplateError, out |-> NoBundle]
        ELSE IF ~HasClassText(js1)
        THEN [status |-> 422, err |-> MissingClassTextError, out |-> NoBundle]
        ELSE IF ~st.ok THEN [status |-> 500, err |-> st.err, out |-> NoBundle]
        ELSE [status |-> 200, err |-> "",
              out |-> [html |-> htmlL, js |-> js3, css |-> parsed.css]]

\* lines 438-453 of POST /api/preview: validation and what is handed to
\* writePreviewFiles
PreviewPipeline(v, body) ==
    IF Trim(body.html) = <<>>
    THEN [status |-> 400, err |-> "HTML content is required to update the preview.",
          out |-> NoBundle]
    ELSE IF ~HasTemplate(body.html)
    THEN [status |-> 422, err |-> MissingTemplateError, out |-> NoBundle]
    ELSE [status |-> 200, err |-> "",
          out |-> IF v = "light"
                  THEN [html |-> ensureLightTemplate(body.html),
                        js |-> ensureLightClass(body.js), css |-> body.css]
                  ELSE body]

ResponseCodeRaw(raw, out) == raw

\* the code object of the success response (lines 405 and 453)
ResponseCode(raw, out) == out

Respond(r, status, err, body) ==
    [r EXCEPT !.pc = "responded", !.status = status, !.err = err, !.body = body]

(***************************************************************************)
(* Request inputs: what the AI call returns, what an editor submits        *)
(***************************************************************************)
Ev(d, e, h, sh) == <<"ev", d, e, h, sh>>

\* <template><div ATTRS>t</div></template>
Tpl(attrs) ==
    << <<"open", "template">>, <<"gt">>, <<"open", "div">> >> \o attrs
        \o << <<"gt">>, <<"text", "t">>, <<"close", "div">>, <<"close", "template">> >>

ScriptRegion ==
    << <<"open", "script">>, <<"attr", "src", "x">>, <<"gt">>, <<"text", "js">>,
       <<"close", "script">> >>

\* export default class Preview extends LightningElement { MEMBERS }
Cls(members) == <<"import", HDR, "{">> \o members \o <<"}">>

Def(n) == <<n, "(", ")", "{", "}">>

\* a method that calls this.n() without defining n
Caller(n) == <<"init", "(", ")", "{", "this.", n, "(", ")", "}">>

GenHtml ==
    { Tpl(<< Ev("quoted", "click", "save", "call") >>),
      Tpl(<< Ev("braced", "click", "save", "bare") >>),
      Tpl(<< Ev("this", "click", "load", "bare") >>),
      Tpl(<< Ev("at", "click", "save", "bare"), Ev("paren", "change", "load", "call") >>),
      Tpl(<< <<"class", "static", "a", "_", "b">>, <<"class", "dyn", "d">> >>),
      Tpl(<< <<"class", "dyn", "d">>, <<"class", "static", "a">>,
             Ev("quoted", "click", "save", "bare") >>),
      Tpl(<< Ev("quoted", "click", "save", "args") >>),
      Tpl(<< <<"attr", "id", "x">>, <<"attr", "id", "y">> >>),
      Tpl(<< RenderModeAttr >>),
      << <<"open", "div">>, <<"gt">>, <<"close", "div">> >>,
      << <<"ws">> >> \o ScriptRegion \o Tpl(<<>>) \o << <<"ws">> >>,
      <<>> }

GenJs ==
    { Cls(<<>>), Cls(Def("save")), Cls(Caller("save")), Cls(Def("load")),
      Cls(helperBody), Cls(Caller("mergeClasses")),
      <<"import", HDR, "Base", "{", "}">>, <<>> }

GenInputs == { [html |-> h, js |-> j, css |-> "css"] : h \in GenHtml, j \in GenJs }

PreviewHtml ==
    { Tpl(<< Ev("quoted", "click", "save", "call") >>),
      Tpl(<< Ev("braced", "click", "save", "bare") >>),
      << <<"open", "div">>, <<"gt">>, <<"close", "div">> >>,
      << <<"ws">> >>,
      <<>> }

PreviewJs == { Cls(<<>>), Cls(Def("save")), <<"let x">>, <<>> }

PreviewInputs ==
    { [html |-> h, js |-> j, css |-> c] : h \in PreviewHtml, j \in PreviewJs, c \in {"", "css"} }

(***************************************************************************)
(* Actions of the store routes                                             *)
(***************************************************************************)
\* POST /api/generate up to the await of the AI call (lines 329-373)
GenerateReceive ==
    /\ req.pc = "idle"
    /\ \E promptOk \in BOOLEAN :
          req' = IF promptOk THEN [Idle EXCEPT !.kind = "generate", !.pc = "ai"]
                 ELSE Respond([Idle EXCEPT !.kind = "generate"], 400, "Missing prompt", NoBundle)
    /\ UNCHANGED <<variant, store, dep, now, req2, call>>

\* the AI call throws, or its content is not JSON (lines 368-376, 406-410)
GenerateAiFails ==
    /\ req.kind = "generate" /\ req.pc = "ai"
    /\ req' = Respond(req, 500, "Generation failed", NoBundle)
    /\ UNCHANGED <<variant, store, dep, now, req2, call>>

\* request r once the pipeline of lines 376-400 has given p for the reply parsed
AfterReply(r, parsed, p) ==
    IF p.status = 200
    THEN [r EXCEPT !.raw = parsed, !.out = p.out, !.pc = "mkdir"]
    ELSE Respond([r EXCEPT !.raw = parsed], p.status, p.err, NoBundle)

\* the AI call returns a parsed object; lines 376-400 run without suspension
GenerateReply(S) ==
    /\ req.kind = "generate" /\ req.pc = "ai"
    /\ \E parsed \in S : req' = AfterReply(req, parsed, GenPipeline(variant, parsed))
    /\ UNCHANGED <<variant, store, dep, now, req2, call>>

\* a preview-update request once lines 437-452 have given p for its body
AfterPreviewBody(body, p) ==
    LET r == [Idle EXCEPT !.kind = "preview", !.raw = body]
    IN  IF p.status = 200 THEN [r EXCEPT !.out = p.out, !.pc = "mkdir"]
        ELSE Respond(r, p.status, p.err, NoBundle)

\* POST /api/preview up to the call of writePreviewFiles (lines 437-452)
PreviewReceive(S) ==
    /\ req.pc = "idle"
    /\ \E body \in S : req' = AfterPreviewBody(body, PreviewPipeline(variant, body))
    /\ UNCHANGED <<variant, store, dep, now, req2, call>>

\* POST /api/reset: resetPreviewToStub (lines 299-301, 414-416)
ResetReceive ==
    /\ req.pc = "idle"
    /\ req' = [Idle EXCEPT !.kind = "reset", !.out = STUB, !.pc = "mkdir"]
    /\ UNCHANGED <<variant, store, dep, now, req2, call>>

\* writePreviewFiles: await fs.mkdir (line 282)
Mkdir ==
    /\ req.pc = "mkdir"
    /\ req' = [req EXCEPT !.pc = "write"]
    /\ UNCHANGED <<variant, store, dep, now, req2, call>>

WrittenAllAtOnce(written) == SubSeq(WriteOrder, Len(written) + 1, Len(WriteOrder))

\* the artifacts one awaited fs.writeFile call writes: the next one only
WrittenByOneCall(written) == <<WriteOrder[Len(written) + 1]>>

ApplyNoWrites(st, out, ws) == st

\* the store after the artifacts ws of bundle out have been written
ApplyWrites(st, out, ws) ==
    [html |-> IF "html" \in Range(ws) THEN out.html ELSE st.html,
     js   |-> IF "js" \in Range(ws) THEN out.js ELSE st.js,
     css  |-> IF "css" \in Range(ws) THEN out.css ELSE st.css]

\* one step of writePreviewFiles for request r
AfterWrite(r) ==
    LET ws == WrittenByOneCall(r.written)
    IN  [r EXCEPT !.written = @ \o ws,
                  !.pc = IF Len(r.written) + Len(ws) = Len(WriteOrder)
                         THEN "respond" ELSE "write"]

\* writePreviewFiles: one awaited fs.writeFile (lines 283-285)
WriteFile ==
    /\ req.pc = "write"
    /\ store' = ApplyWrites(store, req.out, WrittenByOneCall(req.written))
    /\ req' = AfterWrite(req)
    /\ UNCHANGED <<variant, dep, now, req2, call>>

IoErrorMessage(kind) ==
    CASE kind = "generate" -> "EIO"
      [] kind = "preview" -> "Could not save generated component to disk."
      [] OTHER -> "Reset failed"

\* fs.mkdir or fs.writeFile rejects; the route's catch answers 500
IoFails ==
    /\ req.pc \in {"mkdir", "write"}
    /\ req' = Respond(req, 500, IoErrorMessage(req.kind), NoBundle)
    /\ UNCHANGED <<variant, store, dep, now, req2, call>>

\* res.json({ ok: true, ... }) after writePreviewFiles resolved
SendOk ==
    /\ req.pc = "respond"
    /\ req' = Respond(req, 200, "",
                      IF req.kind = "reset" THEN NoBundle
                      ELSE ResponseCode(req.raw, req.out))
    /\ UNCHANGED <<variant, store, dep, now, req2, call>>

\* the response has gone out; the server is ready for the next request
Finish ==
    /\ req.pc = "responded"
    /\ req' = Idle
    /\ UNCHANGED <<variant, store, dep, now, req2, call>>

(***************************************************************************)
(* Deployment Orchestrator: POST /api/deploy and waitForDeployCompletion   *)
(***************************************************************************)
Chars == {"a", "Z", "1", "_", "-", " "}

IsLower(c) == c = "a"

IsLetter(c) == c \in {"a", "Z"}

IsNameChar(c) == c \in {"a", "Z", "1", "_"}

Example123abc == <<"1", "2", "3", "a", "b", "c">>

BundleNames == SeqsUpTo(Chars, MaxNameLen) \cup {Example123abc}

RECURSIVE TrimSpacesLeft(_)
TrimSpacesLeft(n) == IF n # <<>> /\ Head(n) = " " THEN TrimSpacesLeft(Tail(n)) ELSE n

RECURSIVE TrimSpacesRight(_)
TrimSpacesRight(n) ==
    IF n # <<>> /\ n[Len(n)] = " " THEN TrimSpacesRight(SubSeq(n, 1, Len(n) - 1)) ELSE n

\* (name || '').trim()
TrimName(n) == TrimSpacesRight(TrimSpacesLeft(n))

\* /^[A-Za-z][A-Za-z0-9_]*$/ (server.mjs) and /^[a-z][A-Za-z0-9_]*$/ (light)
NamePattern(v, n) ==
    /\ n # <<>>
    /\ IF v = "light" THEN IsLower(n[1]) ELSE IsLetter(n[1])
    /\ \A i \in 2..Len(n) : IsNameChar(n[i])

SanitizeAnyName(v, name) == TrimName(name)

\* sanitizeBundleName(name): <<>> is the empty string it returns on rejection
sanitizeBundleName(v, name) ==
    IF TrimName(name) = <<>> THEN <<>>
    ELSE IF ~NamePattern(v, TrimName(name)) THEN <<>>
    ELSE TrimName(name)

CredentialsError == "Username and password are required."

NameError == "Enter a valid Lightning web component name"

NoComponentError == "No generated component available. Generate a component before deploying."

ReadError == "Could not read generated component from disk."

MissingIdError == "Missing deployment id."

TimeoutError == "Deployment timed out while waiting for Salesforce to finish."

\* what conn.metadata.deploy may resolve to: a string id, or an object
NoStart == [str |-> FALSE, id |-> FALSE, done |-> FALSE, details |-> FALSE, success |-> FALSE]

DeployStarts ==
    { [str |-> TRUE, id |-> TRUE, done |-> FALSE, details |-> FALSE, success |-> FALSE] }
    \cup { [str |-> FALSE, id |-> i, done |-> d, details |-> t, success |-> u] :
             i \in BOOLEAN, d \in BOOLEAN, t \in BOOLEAN, u \in BOOLEAN }

\* what checkDeployStatus may resolve to
NoPoll == [done |-> FALSE, success |-> FALSE]

PollResults == [done : BOOLEAN, success : BOOLEAN]

ImmediateNever(start) == FALSE

\* deployStart && typeof deployStart === 'object' && deployStart.done
\*   && deployStart.details            (line 494)
IsImmediateResult(start) == ~start.str /\ start.done /\ start.details

LoopCondNoDeadline(t, deadline) == TRUE

LoopCondLate(t, deadline) == t <= deadline + 1

\* while (Date.now() <= deadline)     (line 38)
LoopCond(t, deadline) == t <= deadline

AfterNotDoneNoSleep == "loop"

\* a poll that is not done is followed by await sleep(pollIntervalMs) (line 43)
AfterNotDone == "sleeping"

AfterLoginFailureRetry == "login"

\* conn.login rejects: the catch of lines 514-518 answers, nothing is retried
AfterLoginFailure == "responded"

\* polls never exceed this in any run: (MaxTimeout + 1) clock values at or
\* before the deadline, at most MaxSpin + 1 polls at each
MaxPolls == (MaxTimeout + 1) * (MaxSpin + 1) + 1

DepIdle ==
    [pc |-> "idle", timeoutMs |-> 0, pollIntervalMs |-> 0,
     creds |-> FALSE, name |-> <<>>, norm |-> <<>>,
     reads |-> 0, zips |-> 0, logins |-> 0, loginOk |-> FALSE, submits |-> 0,
     start |-> NoStart, hasId |-> FALSE, waited |-> FALSE, deadline |-> 0,
     polls |-> 0, notDone |-> 0, sleeps |-> 0, lastPollStart |-> 0, last |-> NoPoll,
     doneSeen |-> FALSE, spin |-> 0,
     failed |-> "", from |-> "", status |-> 0, err |-> ""]

DepRespond(d, status, err) == [d EXCEPT !.pc = "responded", !.status = status, !.err = err]

\* if (!result.success) 502 with the failure message, else 200 (lines 498-513)
DepOutcome(d, success, from) ==
    [DepRespond(d, IF success THEN 200 ELSE 502, IF success THEN "" ELSE "Deployment failed")
        EXCEPT !.from = from]

\* lines 460-471: credentials check, bundle-name check
DeployReceive(Names) ==
    /\ dep.pc = "idle"
    /\ \E creds \in BOOLEAN, name \in Names :
          LET d == [dep EXCEPT !.creds = creds, !.name = name]
              n == sanitizeBundleName(variant, name)
          IN  dep' = IF ~creds THEN DepRespond(d, 400, CredentialsError)
                     ELSE IF n = <<>> THEN DepRespond(d, 400, NameError)
                     ELSE [d EXCEPT !.norm = n, !.pc = "load"]
    /\ UNCHANGED <<variant, store, req, now, req2, call>>

\* lines 473-483: await loadGeneratedPreview()
DeployLoad ==
    /\ dep.pc = "load"
    /\ \E r \in {"files", "enoent", "eio"} :
          LET d == [dep EXCEPT !.reads = @ + 1]
          IN  dep' = CASE r = "eio" -> DepRespond(d, 500, ReadError)
                       [] r = "enoent" -> DepRespond(d, 400, NoComponentError)
                       [] OTHER -> [d EXCEPT !.pc = "zip"]
    /\ UNCHANGED <<variant, store, req, now, req2, call>>

\* line 488: await buildLwcDeployZip(...)
DeployZip ==
    /\ dep.pc = "zip"
    /\ dep' = [dep EXCEPT !.zips = @ + 1, !.pc = "login"]
    /\ UNCHANGED <<variant, store, req, now, req2, call>>

\* line 490: await conn.login(username, password)
DeployLogin ==
    /\ dep.pc = "login"
    /\ dep.logins < 2
    /\ \E ok \in BOOLEAN :
          LET d == [dep EXCEPT !.logins = @ + 1]
          IN  dep' = IF ok THEN [d EXCEPT !.loginOk = TRUE, !.pc = "submit"]
                     ELSE IF AfterLoginFailure = "responded"
                     THEN [DepRespond(d, 500, "INVALID_LOGIN") EXCEPT !.failed = "login"]
                     ELSE [d EXCEPT !.failed = "login", !.pc = AfterLoginFailure]
    /\ UNCHANGED <<variant, store, req, now, req2, call>>

\* line 492: conn.metadata.deploy rejects
DeploySubmitFails ==
    /\ dep.pc = "submit"
    /\ dep' = [DepRespond(dep, 500, "deploy failed") EXCEPT !.submits = @ + 1, !.failed = "submit"]
    /\ UNCHANGED <<variant, store, req, now, req2, call>>

\* lines 492-496 and 30-36: conn.metadata.deploy resolves; an immediate
\* result is taken, otherwise waitForDeployCompletion is entered
DeploySubmit ==
    /\ dep.pc = "submit"
    /\ \E start \in DeployStarts :
          LET d == [dep EXCEPT !.submits = @ + 1, !.start = start, !.hasId = start.id]
          IN  dep' = IF IsImmediateResult(start) THEN DepOutcome(d, start.success, "submit")
                     ELSE IF ~start.id
                     THEN [DepRespond(d, 500, MissingIdError) EXCEPT !.waited = TRUE]
                     ELSE [d EXCEPT !.waited = TRUE, !.deadline = now + d.timeoutMs,
                                    !.pc = "loop"]
    /\ UNCHANGED <<variant, store, req, now, req2, call>>

\* lines 38-39: the deadline test holds and checkDeployStatus is called
PollStart ==
    /\ dep.pc = "loop"
    /\ LoopCond(now, dep.deadline)
    /\ dep.polls < MaxPolls
    /\ dep' = [dep EXCEPT !.polls = @ + 1, !.lastPollStart = now, !.pc = "polling"]
    /\ UNCHANGED <<variant, store, req, now, req2, call>>

\* lines 38, 46: the deadline test fails
DeployTimeout ==
    /\ dep.pc = "loop"
    /\ ~LoopCond(now, dep.deadline)
    /\ dep' = DepRespond(dep, 500, TimeoutError)
    /\ UNCHANGED <<variant, store, req, now, req2, call>>

\* lines 39-43: checkDeployStatus resolves after d time units
PollReturn ==
    /\ dep.pc = "polling"
    /\ \E d \in 0..MaxPollDur, r \in PollResults :
          /\ d = 0 => dep.spin < MaxSpin
          /\ now' = now + d
          /\ LET p == [dep EXCEPT !.last = r, !.spin = IF d = 0 THEN @ + 1 ELSE 0]
             IN  dep' = IF r.done
                        THEN DepOutcome([p EXCEPT !.doneSeen = TRUE], r.success, "poll")
                        ELSE [p EXCEPT !.notDone = @ + 1, !.pc = AfterNotDone]
    /\ UNCHANGED <<variant, store, req, req2, call>>

\* line 39: checkDeployStatus rejects
PollThrows ==
    /\ dep.pc = "polling"
    /\ dep' = [DepRespond(dep, 500, "poll failed") EXCEPT !.failed = "poll"]
    /\ UNCHANGED <<variant, store, req, now, req2, call>>

\* line 43: the timer of sleep(pollIntervalMs) fires, j time units late
SleepDone ==
    /\ dep.pc = "sleeping"
    /\ \E j \in 0..MaxJitter :
          /\ now' = now + dep.pollIntervalMs + j
          /\ dep' = [dep EXCEPT !.sleeps = @ + 1, !.pc = "loop",
                                !.spin = IF now' > now THEN 0 ELSE @]
    /\ UNCHANGED <<variant, store, req, req2, call>>

\* the state after boot: await resetPreviewToStub() has completed (line 522)
Init ==
    /\ variant \in {"std", "light"}
    /\ store = STUB
    /\ req = Idle
    /\ dep = DepIdle
    /\ now = 0
    /\ req2 = Idle
    /\ call = NoCall

\* the same boot, with the deploy wait's timeout and poll interval
InitDeploy ==
    /\ variant \in {"std", "light"}
    /\ store = STUB
    /\ req = Idle
    /\ now = 0
    /\ req2 = Idle
    /\ call = NoCall
    /\ \E t \in 0..MaxTimeout, p \in 0..MaxInterval :
          dep = [DepIdle EXCEPT !.timeoutMs = t, !.pollIntervalMs = p]

Next ==
    \/ GenerateReceive
    \/ GenerateAiFails
    \/ GenerateReply(GenInputs)
    \/ PreviewReceive(PreviewInputs)
    \/ ResetReceive
    \/ Mkdir
    \/ WriteFile
    \/ IoFails
    \/ SendOk
    \/ Finish

Spec == Init /\ [][Next]_vars

NextDeploy ==
    \/ DeployReceive(BundleNames)
    \/ DeployLoad
    \/ DeployZip
    \/ DeployLogin
    \/ DeploySubmitFails
    \/ DeploySubmit
    \/ PollStart
    \/ DeployTimeout
    \/ PollReturn
    \/ PollThrows
    \/ SleepDone

SpecDeploy == InitDeploy /\ [][NextDeploy]_vars

\* every remote poll call returns, and every pending step is eventually taken
NextDeployReturning ==
    \/ DeployReceive({<<"a">>, <<"Z", "1">>, Example123abc})
    \/ DeployLoad
    \/ DeployZip
    \/ DeployLogin
    \/ DeploySubmitFails
    \/ DeploySubmit
    \/ PollStart
    \/ DeployTimeout
    \/ PollReturn
    \/ SleepDone

FairSpecDeploy ==
    InitDeploy /\ [][NextDeployReturning]_vars /\ WF_vars(NextDeployReturning)

(***************************************************************************)
(* Properties of the store routes                                          *)
(***************************************************************************)
\* "{" minus "}" among the tokens before position i
Depth(code, i) ==
    Cardinality({ k \in 1..(i - 1) : code[k] = "{" })
        - Cardinality({ k \in 1..(i - 1) : code[k] = "}" })

\* n is a member of the class body: "n (" at brace depth 1 after the header
DefinesMethod(code, n) ==
    \E h \in classHeaderRe(code) :
        \E i \in (h + 2)..(Len(code) - 1) :
            code[i] = n /\ code[i + 1] = "(" /\ Depth(SubSeq(code, h + 1, Len(code)), i - h) = 1

\* the markup is what the Normalizer leaves: nothing it would rewrite or reject
NormalForm(html) ==
    /\ \A i \in 1..Len(html) : ScriptRegionEnd(html, i) = 0
    /\ \A i \in 1..(Len(html) - 1) :
          ~(IsStaticClass(html[i]) /\ IsDynClass(html[i + 1]))
          /\ ~(IsDynClass(html[i]) /\ IsStaticClass(html[i + 1]))
    /\ \A i \in 1..Len(html) :
          Kind(html[i]) = "ev" /\ html[i][3] \in LowerEvents /\ html[i][5] \in {"bare", "call"}
              => html[i][2] = "braced"
    /\ ~InlineHandlerRemains(html)
    /\ DuplicateAttribute(html) = <<>>

\* the behavior is what the Enforcer leaves for this markup
Enforced(html, js) ==
    /\ classHeaderRe(js) # {}
    /\ \A n \in Range(extractHandlerNames(html)) : NameThenParen(js, n)

Persisting == req.pc \in {"mkdir", "write", "respond"}

GenerateOk == req.kind = "generate" /\ req.pc = "responded" /\ req.status = 200

\* C1: after a successful generation request every handler bound by a
\* canonical event binding of the persisted markup is a method defined in the
\* persisted behavior class.
C1_HandlersDefined ==
    GenerateOk =>
        \A n \in Range(extractHandlerNames(store.html)) : DefinesMethod(store.js, n)

\* C2: whenever all requests so far have completed, the stored markup holds
\* the root template marker and the stored behavior holds the class header.
C2_StoreWellFormed ==
    req.pc = "idle" => HasTemplate(store.html) /\ HasClassText(store.js)

C4_RespondAfterPersist ==
    /\ GenerateOk
          => /\ req.written = WriteOrder
             /\ req.body = req.out /\ store = req.body
             /\ NormalForm(req.body.html) /\ Enforced(req.body.html, req.body.js)
    /\ req.kind = "generate" /\ req.written # <<>>
          => /\ req.pc \in {"write", "respond", "responded"}
             /\ \A k \in 1..Len(req.written) :
                   req.written[k] = WriteOrder[k] /\ store[WriteOrder[k]] = req.out[WriteOrder[k]]

\* a successful generation response whose bundle differs from the AI's reply
C4_Witness ==
    GenerateOk /\ req.raw.html # req.body.html /\ req.raw.js # req.body.js

(***************************************************************************)
(* Properties of the Deployment Orchestrator                               *)
(***************************************************************************)
DepDone == dep.pc = "responded"

RemoteCalls == dep.logins + dep.submits + dep.polls

\* C5: when the first k polls are not done and poll k+1 is done, the wait
\* returns that result after exactly k+1 polls and k sleeps; every poll but
\* the first starts after the preceding sleep has finished; no poll follows
\* the done result.
C5_ReturnsFirstDoneResult ==
    /\ dep.pc = "polling" => dep.polls = dep.sleeps + 1 /\ dep.notDone = dep.sleeps
    /\ dep.pc = "sleeping" => dep.polls = dep.sleeps + 1 /\ dep.notDone = dep.polls
    /\ dep.pc = "loop" => dep.polls = dep.sleeps /\ dep.notDone = dep.polls
    /\ dep.doneSeen
          => /\ DepDone /\ dep.from = "poll" /\ dep.last.done
             /\ dep.polls = dep.notDone + 1 /\ dep.sleeps = dep.notDone
             /\ dep.status = IF dep.last.success THEN 200 ELSE 502
    /\ dep.from = "poll" => dep.doneSeen

\* three polls not done, the fourth done and successful (Scenario C)
C5_Witness ==
    DepDone /\ dep.doneSeen /\ dep.notDone = 3 /\ dep.polls = 4 /\ dep.sleeps = 3
        /\ dep.status = 200

\* C6 as stated: if no poll returns done, the wait ends with the timeout
\* error; no poll starts after the deadline; no timeout after a done poll.
C6_TimeoutWheneverNoDone ==
    /\ DepDone /\ dep.waited /\ ~dep.doneSeen => dep.err = TimeoutError
    /\ dep.polls > 0 => dep.lastPollStart <= dep.deadline
    /\ dep.err = TimeoutError => ~dep.doneSeen

\* C6 amended: if the wait was given a job id, every poll call returned and
\* none returned done, the wait ends with the timeout error (a rejected poll
\* ends it with that poll's error, a missing id with the missing-id error,
\* both without timeout); no poll starts after the deadline; no timeout
\* after a done poll.
C6_TimeoutWhenPollsReturnNotDone ==
    /\ DepDone /\ dep.waited /\ dep.hasId /\ dep.failed = "" /\ ~dep.doneSeen
          => dep.err = TimeoutError /\ now > dep.deadline
    /\ DepDone /\ dep.failed = "poll" => dep.err = "poll failed"
    /\ DepDone /\ dep.waited /\ ~dep.hasId => dep.err = MissingIdError /\ dep.polls = 0
    /\ dep.polls > 0 => dep.lastPollStart <= dep.deadline
    /\ dep.err = TimeoutError => ~dep.doneSeen /\ dep.waited

\* a timeout after at least two polls that all returned not done
C6_Witness ==
    DepDone /\ dep.err = TimeoutError /\ dep.polls >= 2 /\ dep.notDone = dep.polls

\* C7: with the clock advancing and every poll call returning, a poll loop
\* that has been entered ends: a done result is returned or the timeout
\* error is raised, never both.
C7_WaitTerminates ==
    dep.pc = "loop" ~>
        (DepDone /\ ((dep.from = "poll" /\ dep.err # TimeoutError)
                        \/ (dep.from = "" /\ dep.err = TimeoutError)))

\* the loop is running with a zero poll interval and polls already made
C7_Witness == dep.pc = "loop" /\ dep.pollIntervalMs = 0 /\ dep.polls >= 2

\* C8 as stated: a submit result that is already done is terminal with zero
\* polls; polling is entered only for a job id without a done result.
C8_DoneSubmitIsTerminal ==
    /\ dep.submits = 1 /\ ~dep.start.str /\ dep.start.done
          => DepDone /\ dep.from = "submit" /\ dep.polls = 0
    /\ dep.polls > 0 => dep.start.id /\ ~dep.start.done

\* C8 amended: a submit result that is an object, done and carrying details
\* is terminal with zero polls; every other result enters the wait, which
\* polls when there is a job id (a done result without details included)
\* and fails with the missing-id error, zero polls, when there is none.
C8_DoneWithDetailsIsTerminal ==
    /\ dep.submits = 1 /\ dep.failed # "submit"
          /\ ~dep.start.str /\ dep.start.done /\ dep.start.details
          => /\ DepDone /\ dep.from = "submit" /\ dep.polls = 0 /\ ~dep.waited
             /\ dep.status = IF dep.start.success THEN 200 ELSE 502
    /\ dep.waited
          => dep.start.str \/ ~dep.start.done \/ ~dep.start.details
    /\ dep.waited /\ ~dep.start.id => DepDone /\ dep.err = MissingIdError /\ dep.polls = 0
    /\ dep.polls > 0 => dep.waited /\ dep.start.id
    /\ dep.from = "submit" => dep.polls = 0

\* a done-with-details submit result answered without any poll
C8_Witness ==
    DepDone /\ dep.from = "submit" /\ dep.start.done /\ dep.start.details
        /\ dep.polls = 0 /\ dep.status = 502

\* C9: login and submit are each called at most once, submit only after a
\* successful login; a failed login, submit or poll ends the request with an
\* error and no further remote call.
C9_NoRetry ==
    /\ [](/\ dep.logins <= 1 /\ dep.submits <= 1
          /\ dep.submits = 1 => dep.loginOk /\ dep.logins = 1
          /\ dep.failed # "" => DepDone /\ dep.status = 500
          /\ dep.failed = "login" => dep.submits = 0 /\ dep.polls = 0
          /\ dep.failed = "submit" => dep.polls = 0)
    /\ [][dep.failed # "" => RemoteCalls' = RemoteCalls]_vars

\* a login failure answered with no submit
C9_Witness == DepDone /\ dep.failed = "login" /\ dep.logins = 1 /\ dep.submits = 0

Rejected400(err) == DepDone /\ dep.status = 400 /\ dep.err = err

NothingStarted ==
    dep.reads = 0 /\ dep.zips = 0 /\ dep.logins = 0 /\ dep.submits = 0

\* C10 as stated: a bundle name that does not match the pattern is rejected
\* with the naming error before the store is read, any archive built, any
\* login or submit; a name is let through only if it matches.
C10_NonMatchingNameRejected ==
    /\ dep.pc # "idle" /\ ~NamePattern(variant, dep.name)
          => Rejected400(NameError) /\ NothingStarted
    /\ dep.reads > 0 => NamePattern(variant, dep.name)

\* C10 amended: with credentials present, a bundle name whose trimmed form
\* does not match the pattern is rejected with the naming error before the
\* store is read, any archive built, any login or submit; a name is let
\* through only if its trimmed form matches, and the trimmed form is the
\* name used from then on.
C10_TrimmedNameChecked ==
    /\ dep.pc # "idle" /\ dep.creds /\ ~NamePattern(variant, TrimName(dep.name))
          => Rejected400(NameError) /\ NothingStarted
    /\ dep.pc # "idle" /\ ~dep.creds => Rejected400(CredentialsError) /\ NothingStarted
    /\ dep.pc \notin {"idle", "responded"} \/ dep.reads > 0
          => /\ dep.creds /\ NamePattern(variant, TrimName(dep.name))
             /\ dep.norm = TrimName(dep.name)

\* "123abc" rejected with the naming error
C10_Witness ==
    dep.name = Example123abc /\ dep.creds /\ Rejected400(NameError) /\ NothingStarted

(***************************************************************************)
(* Error classification and the validation gate of POST /api/generate      *)
(***************************************************************************)
GenerateAnswered == req.kind = "generate" /\ req.pc = "responded"

\* C11: a generation request that fails inside the Normalizer or the
\* Enforcer (inline-handler error, duplicate-attribute error, missing class
\* declaration) is answered with a 4xx status carrying that message.
C11_NormalizerErrorsAre4xx ==
    GenerateAnswered
        /\ req.err \in {InlineHandlerError, DuplicateAttributeError, MissingClassError}
        => req.status \in 400..499

\* the AI's reply normalizes, and its markup has no root template marker or
\* its behavior has no class declaration text
GateFails(parsed) ==
    /\ sanitizeHtml(parsed.html).ok
    /\ \/ \A i \in 1..Len(sanitizeHtml(parsed.html).html) :
              sanitizeHtml(parsed.html).html[i] # <<"open", "template">>
       \/ \A i \in 1..Len(parsed.js) : parsed.js[i] # HDR

\* C12: a generation request whose normalized markup lacks the root template
\* marker, or whose behavior lacks the class declaration, is answered 422 at
\* once and writes nothing: the store stays as it was before the request.
C12_GateRejectsAndPersistsNothing ==
    /\ [](req.kind = "generate" /\ req.status = 422
              => req.pc = "responded" /\ req.written = <<>>)
    /\ [][req.kind = "generate" /\ req.pc = "ai" /\ req'.raw \in GenInputs
              /\ GateFails(req'.raw)
            => /\ req'.pc = "responded" /\ req'.status = 422
               /\ req'.err \in {MissingTemplateError, MissingClassTextError}
               /\ req'.written = <<>> /\ store' = store]_vars
    /\ [][req.kind = "generate" /\ req'.kind = "generate" /\ req'.written = <<>>
            => store' = store]_vars

\* a reply with a root template but no class declaration is answered 422
\* while the store still holds what an earlier preview update wrote
C12_Witness ==
    /\ GenerateAnswered /\ req.status = 422 /\ req.err = MissingClassTextError
    /\ HasTemplate(req.raw.html) /\ req.raw.js = <<>>
    /\ store # STUB /\ req.written = <<>>

(***************************************************************************)
(* Two store requests in flight at once.  Each express handler is an async *)
(* function: while one awaits fs.mkdir / fs.writeFile / the AI call, the   *)
(* event loop runs the other.  req2 goes through the same routes as req.   *)
(***************************************************************************)
RaceGen ==
    { [html |-> Tpl(<< Ev("braced", "click", "save", "bare") >>),
       js |-> Cls(Def("save")), css |-> "css"] }

RacePreview == { [html |-> Tpl(<<>>), js |-> Cls(<<>>), css |-> ""] }

\* a second request arrives: POST /api/generate, /api/preview or /api/reset
OtherReceive(S) ==
    /\ req2.pc = "idle"
    /\ \/ req2' = [Idle EXCEPT !.kind = "generate", !.pc = "ai"]
       \/ req2' = [Idle EXCEPT !.kind = "reset", !.out = STUB, !.pc = "mkdir"]
       \/ \E body \in S : req2' = AfterPreviewBody(body, PreviewPipeline(variant, body))
    /\ UNCHANGED <<variant, store, req, dep, now, call>>

\* the second request's AI call returns (lines 376-400)
OtherGenerateReply(S) ==
    /\ req2.kind = "generate" /\ req2.pc = "ai"
    /\ \E parsed \in S : req2' = AfterReply(req2, parsed, GenPipeline(variant, parsed))
    /\ UNCHANGED <<variant, store, req, dep, now, call>>

\* the second request's fs.mkdir (line 282)
OtherMkdir ==
    /\ req2.pc = "mkdir"
    /\ req2' = [req2 EXCEPT !.pc = "write"]
    /\ UNCHANGED <<variant, store, req, dep, now, call>>

\* one awaited fs.writeFile of the second request (lines 283-285)
OtherWriteFile ==
    /\ req2.pc = "write"
    /\ store' = ApplyWrites(store, req2.out, WrittenByOneCall(req2.written))
    /\ req2' = AfterWrite(req2)
    /\ UNCHANGED <<variant, req, dep, now, call>>

\* the second request's success response
OtherSendOk ==
    /\ req2.pc = "respond"
    /\ req2' = Respond(req2, 200, "",
                       IF req2.kind = "reset" THEN NoBundle
                       ELSE ResponseCode(req2.raw, req2.out))
    /\ UNCHANGED <<variant, store, req, dep, now, call>>

\* the second request's AI call, fs.mkdir or fs.writeFile rejects
OtherFails ==
    /\ req2.pc \in {"ai", "mkdir", "write"}
    /\ req2' = Respond(req2, 500,
                       IF req2.pc = "ai" THEN "Generation failed"
                       ELSE IoErrorMessage(req2.kind), NoBundle)
    /\ UNCHANGED <<variant, store, req, dep, now, call>>

\* the second response has gone out
OtherFinish ==
    /\ req2.pc = "responded"
    /\ req2' = Idle
    /\ UNCHANGED <<variant, store, req, dep, now, call>>

NextRace ==
    \/ GenerateReceive
    \/ GenerateAiFails
    \/ GenerateReply(RaceGen)
    \/ PreviewReceive(RacePreview)
    \/ ResetReceive
    \/ Mkdir
    \/ WriteFile
    \/ IoFails
    \/ SendOk
    \/ Finish
    \/ OtherReceive(RacePreview)
    \/ OtherGenerateReply(RaceGen)
    \/ OtherMkdir
    \/ OtherWriteFile
    \/ OtherFails
    \/ OtherSendOk
    \/ OtherFinish

SpecRace == Init /\ [][NextRace]_vars

Artifacts == {"html", "js", "css"}

BothAnswered ==
    /\ req.pc = "responded" /\ req.status = 200 /\ req.written = WriteOrder
    /\ req2.pc = "responded" /\ req2.status = 200 /\ req2.written = WriteOrder

\* C13: persisting is three separate single-artifact writes with no lock
\* between requests: every step changes at most one artifact and a request
\* is answered 200 only after its own three writes, so that overlapping
\* requests can leave a store whose artifacts come from different requests.
C13_WritesAreSeparate ==
    /\ [](/\ req.status = 200 /\ req.kind # "none" => req.written = WriteOrder
          /\ req2.status = 200 /\ req2.kind # "none" => req2.written = WriteOrder)
    /\ [][Cardinality({ k \in Artifacts : store'[k] # store[k] }) <= 1]_vars

\* both overlapping requests have been answered 200 and the store holds the
\* markup of one and the behavior of the other
C13_Witness ==
    /\ BothAnswered
    /\ store.html = req.out.html /\ store.html # req2.out.html
    /\ store.js = req2.out.js /\ store.js # req.out.js

(***************************************************************************)
(* Properties of the light-DOM variant                                     *)
(***************************************************************************)
\* the start tag of the first <template carries lwc:render-mode="light"
RootCarriesLight(html) ==
    /\ HasTemplate(html)
    /\ LET t == FirstIndex({ i \in 1..Len(html) : html[i] = <<"open", "template">> })
       IN  \E j \in (t + 1)..Len(html) :
              /\ html[j] = RenderModeAttr
              /\ \A k \in (t + 1)..(j - 1) : Kind(html[k]) \notin {"gt", "open", "close"}

\* static renderMode = 'light' is a member of the class body
DeclaresLight(code) ==
    \E h \in classHeaderRe(code) :
        \E i \in (h + 2)..Len(code) :
            code[i] = StaticRenderMode /\ Depth(SubSeq(code, h + 1, Len(code)), i - h) = 1

AppPage == "lightning__AppPage"

HomePage == "lightning__HomePage"

RecordPage == "lightning__RecordPage"

DEFAULT_LWC_TARGETS == << <<AppPage>>, <<HomePage>>, <<RecordPage>> >>

ALLOWED_LWC_TARGETS == Range(DEFAULT_LWC_TARGETS)

NotAString == <<"#">>

\* typeof value === 'string' ? value.trim() : ''
TargetString(value) == IF value = NotAString THEN <<>> ELSE TrimName(value)

UniqueKeepAll(list) == list

\* Array.from(new Set(list)): first occurrences, in order
Unique(list) ==
    LET keep == { i \in 1..Len(list) : \A j \in 1..(i - 1) : list[j] # list[i] }
        F[n \in 0..Len(list)] ==
            IF n = 0 THEN <<>>
            ELSE IF n \in keep THEN Append(F[n - 1], list[n]) ELSE F[n - 1]
    IN  F[Len(list)]

\* normalizeTargets(targets); targets = [isArray, items]
normalizeTargets(targets) ==
    LET list == IF targets.isArray THEN targets.items ELSE <<>>
        mapped == [i \in 1..Len(list) |-> TargetString(list[i])]
        filtered == SelectSeq(mapped, LAMBDA v : v # <<>> /\ v \in ALLOWED_LWC_TARGETS)
    IN  IF Len(filtered) > 0 THEN Unique(filtered) ELSE DEFAULT_LWC_TARGETS

\* a list handed back to normalizeTargets
AsArray(list) == [isArray |-> TRUE, items |-> list]

TargetValues ==
    { <<AppPage>>, <<HomePage>>, <<RecordPage>>, <<" ", AppPage>>, <<"bogus">>,
      <<>>, NotAString }

TargetArgs ==
    { AsArray(l) : l \in SeqsUpTo(TargetValues, MaxTargets) }
        \cup { [isArray |-> FALSE, items |-> <<>>] }

\* a call of normalizeTargets is about to be made with some argument
InitTargets ==
    /\ variant \in {"std", "light"}
    /\ store = STUB /\ req = Idle /\ dep = DepIdle /\ now = 0 /\ req2 = Idle
    /\ \E t \in TargetArgs :
          call = [fn |-> "normalizeTargets", done |-> FALSE, arg |-> t,
                  res |-> <<>>, again |-> FALSE, res2 |-> <<>>]

\* the call returns
CallNormalizeTargets ==
    /\ call.fn = "normalizeTargets" /\ ~call.done
    /\ call' = [call EXCEPT !.done = TRUE, !.res = normalizeTargets(call.arg)]
    /\ UNCHANGED <<variant, store, req, dep, now, req2>>

\* the result is normalized once more (createLightningBundleMetaXml, line 189,
\* normalizes the list the route already normalized at line 471)
ReapplyNormalizeTargets ==
    /\ call.fn = "normalizeTargets" /\ call.done /\ ~call.again
    /\ call' = [call EXCEPT !.again = TRUE, !.res2 = normalizeTargets(AsArray(call.res))]
    /\ UNCHANGED <<variant, store, req, dep, now, req2>>

NextTargets ==
    \/ CallNormalizeTargets
    \/ ReapplyNormalizeTargets

SpecTargets == InitTargets /\ [][NextTargets]_vars

NoDuplicates(list) ==
    \A i \in 1..Len(list) : \A j \in 1..Len(list) : list[i] = list[j] => i = j

\* list is the distinct members of src, ordered by first occurrence in src
InFirstOccurrenceOrder(list, src) ==
    /\ NoDuplicates(list)
    /\ Range(list) = Range(src)
    /\ \A i \in 1..Len(list) : \A j \in 1..Len(list) :
          i < j => \E a \in 1..Len(src) :
                      /\ src[a] = list[i]
                      /\ \A b \in 1..a : src[b] # list[j]

TargetsReturned == call.fn = "normalizeTargets" /\ call.done

\* the supplied values that are allowed identifiers as they stand
SuppliedAllowed ==
    SelectSeq(call.arg.items, LAMBDA v : v \in ALLOWED_LWC_TARGETS)

\* the supplied strings that are allowed identifiers once trimmed
TrimmedAllowed ==
    SelectSeq([i \in 1..Len(call.arg.items) |-> TargetString(call.arg.items[i])],
              LAMBDA v : v \in ALLOWED_LWC_TARGETS)

\* C16 as stated: the result is a non-empty duplicate-free list of allowed
\* identifiers, the allowed supplied values in first-occurrence order, and
\* it is the default set of three exactly when no supplied value is allowed;
\* normalizing the result again returns it.
C16_DefaultExactlyWhenNoneAllowed ==
    TargetsReturned
        => /\ call.res # <<>> /\ NoDuplicates(call.res)
           /\ Range(call.res) \subseteq ALLOWED_LWC_TARGETS
           /\ (call.res = DEFAULT_LWC_TARGETS) <=> (SuppliedAllowed = <<>>)
           /\ SuppliedAllowed # <<>> => InFirstOccurrenceOrder(call.res, SuppliedAllowed)
           /\ call.again => call.res2 = call.res

\* C16 amended: the result is a non-empty duplicate-free list of allowed
\* identifiers: the supplied strings that are allowed once trimmed, in
\* first-occurrence order; when there is none it is the default set of
\* three (which is also the result when the caller supplies exactly that
\* list); normalizing the result again returns it.
C16_TrimmedAllowedOrDefault ==
    TargetsReturned
        => /\ call.res # <<>> /\ NoDuplicates(call.res)
           /\ Range(call.res) \subseteq ALLOWED_LWC_TARGETS
           /\ TrimmedAllowed = <<>> => call.res = DEFAULT_LWC_TARGETS
           /\ TrimmedAllowed # <<>> => InFirstOccurrenceOrder(call.res, TrimmedAllowed)
           /\ call.again => call.res2 = call.res

\* a list with a repeated and an untrimmed value came back deduplicated, in
\* the caller's order, and normalized to itself again
C16_Witness ==
    /\ TargetsReturned /\ call.again
    /\ call.arg.items = << <<HomePage>>, <<" ", AppPage>>, <<HomePage>> >>
    /\ call.res = << <<HomePage>>, <<AppPage>> >>

(***************************************************************************)
(* The manifests and the archive.  An archive is JSZip's table of entries  *)
(* in insertion order, each entry a path, a directory flag and its data.   *)
(***************************************************************************)
\* SF_API_VERSION (line 21)
SfApiVersion == "60.0"

\* apiVersion || SF_API_VERSION
VersionOrDefault(apiVersion) == IF apiVersion = "" THEN SfApiVersion ELSE apiVersion

\* `    <target>${target}</target>`
TargetXml(target) == <<"<target>">> \o target \o <<"</target>">>

createLightningBundleMetaXml(apiVersion, targets) ==
    LET normalizedTargets == normalizeTargets(targets)
    IN  <<"<?xml?>", "<LightningComponentBundle>",
          "<apiVersion>", VersionOrDefault(apiVersion), "</apiVersion>",
          "<isExposed>", "true", "</isExposed>", "<targets>">>
        \o Concat([i \in 1..Len(normalizedTargets) |-> TargetXml(normalizedTargets[i])])
        \o <<"</targets>", "</LightningComponentBundle>">>

createPackageXml(bundleName, apiVersion) ==
    <<"<?xml?>", "<Package>", "<types>", "<members>">> \o bundleName
        \o <<"</members>", "<name>", "LightningComponentBundle", "</name>", "</types>",
             "<version>", VersionOrDefault(apiVersion), "</version>", "</Package>">>

\* zip.file(path, data): a later entry of the same path replaces the earlier
ZipFile(zip, path, data) ==
    LET e == [path |-> path, dir |-> FALSE, data |-> data]
        at == { i \in 1..Len(zip) : zip[i].path = path }
    IN  IF at = {} THEN Append(zip, e)
        ELSE [i \in 1..Len(zip) |-> IF i \in at THEN e ELSE zip[i]]

\* zip.folder(path): the directory entry, created once
ZipFolder(zip, path) ==
    IF \E i \in 1..Len(zip) : zip[i].path = path THEN zip
    ELSE Append(zip, [path |-> path, dir |-> TRUE, data |-> <<>>])

BundlePathFlat(bundleName, ext) == <<"lwc", "/">> \o bundleName \o <<ext>>

\* zip.folder('lwc').folder(bundleName).file(`${bundleName}${ext}`, ...)
BundlePath(bundleName, ext) ==
    <<"lwc", "/">> \o bundleName \o <<"/">> \o bundleName \o <<ext>>

buildLwcDeployZip(bundleName, files, apiVersion, targets) ==
    LET z1 == ZipFile(<<>>, <<"package.xml">>, createPackageXml(bundleName, apiVersion))
        z2 == ZipFolder(z1, <<"lwc", "/">>)
        z3 == ZipFolder(z2, <<"lwc", "/">> \o bundleName \o <<"/">>)
        z4 == ZipFile(z3, BundlePath(bundleName, ".html"), files.html)
        z5 == ZipFile(z4, BundlePath(bundleName, ".js"), files.js)
        z6 == ZipFile(z5, BundlePath(bundleName, ".css"), files.css)
    IN  ZipFile(z6, BundlePath(bundleName, ".js-meta.xml"),
                createLightningBundleMetaXml(apiVersion, targets))

PackNames == { <<"a">>, <<"Z", "1">>, <<"a", "_", "1">>, <<"1", "a">> }

PackVersions == {"60.0", "59.0", ""}

PackTargets ==
    { AsArray(l) : l \in SeqsUpTo({ <<AppPage>>, <<HomePage>>, <<"bogus">> }, MaxTargets) }

PackFiles ==
    { [html |-> <<"H">>, js |-> <<"J">>, css |-> <<>>],
      [html |-> <<"H2">>, js |-> <<"J">>, css |-> <<"C">>] }

\* a call of buildLwcDeployZip is about to be made
InitPack ==
    /\ variant \in {"std", "light"}
    /\ store = STUB /\ req = Idle /\ dep = DepIdle /\ now = 0 /\ req2 = Idle
    /\ \E n \in PackNames, f \in PackFiles, v \in PackVersions, t \in PackTargets :
          call = [fn |-> "buildLwcDeployZip", done |-> FALSE,
                  arg |-> [name |-> n, files |-> f, apiVersion |-> v, targets |-> t],
                  res |-> <<>>]

\* the archive has been generated
CallBuildLwcDeployZip ==
    /\ call.fn = "buildLwcDeployZip" /\ ~call.done
    /\ call' = [call EXCEPT !.done = TRUE,
                            !.res = buildLwcDeployZip(call.arg.name, call.arg.files,
                                                      call.arg.apiVersion, call.arg.targets)]
    /\ UNCHANGED <<variant, store, req, dep, now, req2>>

\* the archive is handed on (conn.metadata.deploy, line 492)
ZipHandedOn ==
    /\ call.fn = "buildLwcDeployZip" /\ call.done
    /\ call' = NoCall
    /\ UNCHANGED <<variant, store, req, dep, now, req2>>

NextPack ==
    \/ CallBuildLwcDeployZip
    \/ ZipHandedOn

SpecPack == InitPack /\ [][NextPack]_vars

(***************************************************************************)
(* Unpacking an archive                                                    *)
(***************************************************************************)
\* the data of the file stored at path (<<"absent">> when there is none)
FileAt(zip, path) ==
    LET at == { i \in 1..Len(zip) : zip[i].path = path /\ ~zip[i].dir }
    IN  IF at = {} THEN <<"absent">> ELSE zip[FirstIndex(at)].data

FilePaths(zip) == { zip[i].path : i \in { k \in 1..Len(zip) : ~zip[k].dir } }

\* the tokens between the first open tag and the first close tag after it
Between(xml, open, close) ==
    LET os == { i \in 1..Len(xml) : xml[i] = open }
    IN  IF os = {} THEN <<"absent">>
        ELSE LET o == FirstIndex(os)
                 cs == { j \in (o + 1)..Len(xml) : xml[j] = close }
             IN  IF cs = {} THEN <<"absent">> ELSE SubSeq(xml, o + 1, FirstIndex(cs) - 1)

\* the contents of the <target> elements, in document order
ReadTargets(xml) ==
    LET F[n \in 0..Len(xml)] ==
            IF n = 0 THEN <<>>
            ELSE IF xml[n] = "<target>"
                 THEN Append(F[n - 1], Between(SubSeq(xml, n, Len(xml)), "<target>", "</target>"))
                 ELSE F[n - 1]
    IN  F[Len(xml)]

ExpectedPath(n, ext) == <<"lwc", "/">> \o n \o <<"/">> \o n \o <<ext>>

\* a valid name, a version, and a target list that is already normalized
PackArgsValid ==
    /\ NamePattern(variant, call.arg.name)
    /\ call.arg.apiVersion # ""
    /\ call.arg.targets.items # <<>> /\ NoDuplicates(call.arg.targets.items)
    /\ Range(call.arg.targets.items) \subseteq ALLOWED_LWC_TARGETS

\* C15: for a valid bundle name, bundle, API version and target list, the
\* archive unpacks to package.xml and the four files lwc/<name>/<name>.html,
\* .js, .css, .js-meta.xml; the three artifacts come back unchanged and the
\* manifests give back the member name, the API version and the target list.
C15_PackRoundTrip ==
    call.fn = "buildLwcDeployZip" /\ call.done /\ PackArgsValid
        => LET z == call.res
               n == call.arg.name
               pkg == FileAt(z, <<"package.xml">>)
               meta == FileAt(z, ExpectedPath(n, ".js-meta.xml"))
           IN  /\ FilePaths(z) = { <<"package.xml">>, ExpectedPath(n, ".html"),
                                   ExpectedPath(n, ".js"), ExpectedPath(n, ".css"),
                                   ExpectedPath(n, ".js-meta.xml") }
               /\ Cardinality({ k \in 1..Len(z) : ~z[k].dir }) = 5
               /\ FileAt(z, ExpectedPath(n, ".html")) = call.arg.files.html
               /\ FileAt(z, ExpectedPath(n, ".js")) = call.arg.files.js
               /\ FileAt(z, ExpectedPath(n, ".css")) = call.arg.files.css
               /\ Between(pkg, "<members>", "</members>") = n
               /\ Between(pkg, "<version>", "</version>") = <<call.arg.apiVersion>>
               /\ Between(meta, "<apiVersion>", "</apiVersion>") = <<call.arg.apiVersion>>
               /\ ReadTargets(meta) = call.arg.targets.items

\* an archive built for name a_1, version 59.0 and targets in the caller's
\* own order (home page before app page)
C15_Witness ==
    /\ call.fn = "buildLwcDeployZip" /\ call.done /\ PackArgsValid
    /\ call.arg.name = <<"a", "_", "1">> /\ call.arg.apiVersion = "59.0"
    /\ call.arg.targets.items = << <<HomePage>>, <<AppPage>> >>
    /\ call.arg.files.css = <<"C">>

(***************************************************************************)
(* Properties of the merge helper                                          *)
(***************************************************************************)
\* the positions where n is defined as a member of the class body
MethodDefinitions(code, n) ==
    { p \in { <<h, i>> : h \in classHeaderRe(code), i \in 1..(Len(code) - 1) } :
        /\ p[2] >= p[1] + 2
        /\ code[p[2]] = n /\ code[p[2] + 1] = "("
        /\ Depth(SubSeq(code, p[1] + 1, Len(code)), p[2] - p[1]) = 1 }

\* C17: after a successful generation request in which the Normalizer
\* merged a class-attribute pair, the persisted behavior defines exactly one
\* mergeClasses method, whether or not handler stubs were inserted.
C17_MergeHelperDefined ==
    GenerateOk /\ sanitizeHtml(req.raw.html).merge
        => Cardinality(MethodDefinitions(store.js, "mergeClasses")) = 1

(***************************************************************************)
(* Calls of the Markup Normalizer on its own.  The markup is a root        *)
(* template holding a <p> and a <div>, on one line or on two, each with a  *)
(* list of attributes; or a root template holding script regions.          *)
(***************************************************************************)
Elem(tag, attrs) ==
    << <<"open", tag>> >> \o attrs \o << <<"gt">>, <<"text", "t">>, <<"close", tag>> >>

Doc(a1, sep, a2) ==
    << <<"open", "template">>, <<"gt">> >> \o Elem("p", a1) \o sep \o Elem("div", a2)
        \o << <<"close", "template">> >>

NormAttrs ==
    { <<"class", "static", "a", "_", "b">>, <<"class", "dyn", "d">>,
      Ev("braced", "click", "h", "bare"), Ev("quoted", "click", "h", "args"),
      <<"attr", "id", "x">>, <<"battr", "disabled">> }

ScriptDocs ==
    { Tpl(<<>>) \o ScriptRegion,
      << <<"open", "template">>, <<"gt">>, <<"open", "SCRIPT">>, <<"gt">>,
         <<"close", "SCRIPT">>, <<"close", "template">> >>,
      << <<"open", "template">>, <<"gt">>, <<"open", "script">>, <<"gt">>,
         <<"text", "js">>, <<"close", "template">> >>,
      << <<"open", "template">>, <<"gt">>, <<"frag", "<scr">>, <<"open", "script">>,
         <<"gt">>, <<"close", "script">>, <<"frag", "ipt">>, <<"gt">>,
         <<"text", "alert(1)">>, <<"close", "script">>, <<"close", "template">> >> }

\* one binding to foo in each of the four non-canonical dialects, with and
\* without a trailing "()"
EventDocs ==
    { Tpl(<< Ev(d, "click", "foo", sh) >>) :
        d \in {"at", "paren", "quoted", "this"}, sh \in {"bare", "call"} }

NormInputs ==
    { Doc(a1, sep, a2) : a1 \in { <<>>, << <<"class", "dyn", "x">> >> },
                         sep \in { <<>>, << <<"nl">> >> },
                         a2 \in SeqsUpTo(NormAttrs, MaxAttrs) }
        \cup ScriptDocs \cup EventDocs

\* a call of sanitizeHtml is about to be made on some markup
InitNormalize ==
    /\ variant \in {"std", "light"}
    /\ store = STUB /\ req = Idle /\ dep = DepIdle /\ now = 0 /\ req2 = Idle
    /\ \E h \in NormInputs :
          call = [fn |-> "sanitizeHtml", done |-> FALSE, arg |-> h,
                  res |-> sanitizeHtml(<<>>), names |-> <<>>]

\* the call returns or throws
CallSanitizeHtml ==
    /\ call.fn = "sanitizeHtml" /\ ~call.done
    /\ call' = [call EXCEPT !.done = TRUE, !.res = sanitizeHtml(call.arg)]
    /\ UNCHANGED <<variant, store, req, dep, now, req2>>

\* the handler names are read from the normalized markup (line 396)
CallExtractHandlerNames ==
    /\ call.fn = "sanitizeHtml" /\ call.done /\ call.res.ok
    /\ call' = [fn |-> "extractHandlerNames", done |-> TRUE, arg |-> call.arg,
                res |-> call.res, names |-> extractHandlerNames(call.res.html)]
    /\ UNCHANGED <<variant, store, req, dep, now, req2>>

NextNormalize ==
    \/ CallSanitizeHtml
    \/ CallExtractHandlerNames

SpecNormalize == InitNormalize /\ [][NextNormalize]_vars

Normalized == call.fn = "sanitizeHtml" /\ call.done

\* C18: whenever normalization succeeds, the normalized markup holds no
\* script region: no <script ...> open tag followed by a </script> close tag.
C18_NoScriptRegionRemains ==
    Normalized /\ call.res.ok
        => \A i \in 1..Len(call.res.html) : ScriptRegionEnd(call.res.html, i) = 0

\* the attribute name a token stands for in its start tag
RealName(tok) ==
    CASE Kind(tok) \in {"attr", "battr"} -> <<tok[2]>>
      [] Kind(tok) = "class" -> <<"class">>
      [] Kind(tok) = "ev" /\ tok[2] = "at" -> <<"@", tok[3]>>
      [] Kind(tok) = "ev" /\ tok[2] = "paren" -> <<"(", tok[3], ")">>
      [] Kind(tok) = "ev" -> <<"on", tok[3]>>
      [] OTHER -> <<>>

StartTags(html) == { i \in 1..Len(html) : Kind(html[i]) = "open" }

\* the attribute names that occur twice in one start tag of the markup
DuplicatedNames(html) ==
    { n \in { RealName(html[k]) : k \in 1..Len(html) } :
        /\ n # <<>>
        /\ \E i \in StartTags(html) :
              LET c == AttrChunk(html, i)
              IN  \E k \in 1..Len(c) : \E m \in 1..Len(c) :
                     k < m /\ RealName(c[k]) = n /\ RealName(c[m]) = n }

\* start tag i carries a static and a dynamic class attribute side by side
HasAdjacentPair(html, i) ==
    LET c == AttrChunk(html, i)
    IN  \E k \in 1..(Len(c) - 1) :
           \/ IsStaticClass(c[k]) /\ IsDynClass(c[k + 1])
           \/ IsDynClass(c[k]) /\ IsStaticClass(c[k + 1])

NoAdjacentPair(html) == \A i \in StartTags(html) : ~HasAdjacentPair(html, i)

HasQuotedHandler(html) ==
    \E k \in 1..Len(html) : Kind(html[k]) = "ev" /\ html[k][2] \in {"quoted", "squoted"}

\* C19: markup in which a start tag carries the same attribute name twice
\* is rejected with the duplicate-attribute error naming such an attribute;
\* a static and a dynamic class attribute that are not side by side are
\* never merged.  (Pairs that are side by side are merged, and markup with
\* a quoted handler is rejected before the scan; both are left aside.)
C19_DuplicateRejected ==
    Normalized /\ NoAdjacentPair(call.arg) /\ ~HasQuotedHandler(call.arg)
        => /\ ~call.res.merge
           /\ DuplicatedNames(call.arg) # {}
                 => /\ ~call.res.ok /\ call.res.err = DuplicateAttributeError
                    /\ \E n \in DuplicatedNames(call.arg) :
                          call.res.attr = IF Len(n) = 1 THEN n ELSE <<"on", n[2]>>

\* the class token of the merged form whose first argument is the static text
IsMergedForm(tok, staticTok) ==
    LET pre == <<"class", "dyn", "mergeClasses", "(", "q">>
                   \o CleanStatic(SubSeq(staticTok, 3, Len(staticTok))) \o <<"q", ",">>
    IN  /\ Len(tok) > Len(pre) + 1
        /\ SubSeq(tok, 1, Len(pre)) = pre
        /\ tok[Len(tok)] = ")"
        /\ \A k \in 1..Len(tok) : tok[k] # "}"

ClassTokens(chunk) == SelectSeq(chunk, LAMBDA t : Kind(t) = "class")

\* C20: when normalization succeeds, every element that had a static and a
\* dynamic class attribute side by side, in either order, is left with
\* exactly one class attribute, class={mergeClasses("<static>", <dynamic>)}
\* with the static text first, and mergeRequired is set; mergeRequired is
\* not set when no element had such a pair.
C20_AdjacentPairMerged ==
    Normalized /\ call.res.ok
        => /\ \A i \in StartTags(call.arg) :
                 HasAdjacentPair(call.arg, i)
                     => /\ call.res.merge
                        /\ \E o \in StartTags(call.res.html) :
                              /\ call.res.html[o] = call.arg[i]
                              /\ LET cls == ClassTokens(AttrChunk(call.res.html, o))
                                     st == ClassTokens(AttrChunk(call.arg, i))
                                 IN  /\ Len(cls) = 1
                                     /\ \E k \in 1..Len(st) :
                                           IsStaticClass(st[k]) /\ IsMergedForm(cls[1], st[k])
           /\ NoAdjacentPair(call.arg) => ~call.res.merge

\* C21: markup whose only attribute is a binding to foo in one of the four
\* accepted non-canonical dialects (@event="foo", (event)="foo", onevent="foo",
\* onevent={this.foo}), with or without a trailing "()", normalizes, and the
\* binding becomes exactly on<event>={foo}.
C21_DialectsBecomeCanonical ==
    Normalized /\ call.arg \in EventDocs
        => /\ call.res.ok
           /\ call.res.html = Tpl(<< Ev("braced", "click", "foo", "bare") >>)

(***************************************************************************)
(* Calls of the Behavior Consistency Enforcer on its own: one of its two   *)
(* steps is applied to a behavior, and then once more to its own output.   *)
(***************************************************************************)
HandlerIds == {"save", "load"}

HandlerLists == SeqsUpTo(HandlerIds, MaxHandlers)

\* a behavior and a handler list are at hand
InitEnforce ==
    /\ variant \in {"std", "light"}
    /\ store = STUB /\ req = Idle /\ dep = DepIdle /\ now = 0 /\ req2 = Idle
    /\ \E js \in GenJs : \E names \in HandlerLists :
          call = [fn |-> "enforcer", done |-> FALSE, again |-> FALSE, arg |-> js,
                  names |-> names, prev |-> js,
                  res |-> [ok |-> TRUE, code |-> js, err |-> ""]]

\* js = ensureMergeClasses(js)
CallEnsureMergeClasses ==
    /\ call.fn = "enforcer"
    /\ call' = [call EXCEPT !.fn = "ensureMergeClasses", !.done = TRUE,
                            !.res.code = ensureMergeClasses(call.arg)]
    /\ UNCHANGED <<variant, store, req, dep, now, req2>>

\* js = ensureHandlerStubs(js, handlerNames), which returns or throws
CallEnsureHandlerStubs ==
    /\ call.fn = "enforcer"
    /\ call' = [call EXCEPT !.fn = "ensureHandlerStubs", !.done = TRUE,
                            !.res = ensureHandlerStubs(call.arg, call.names)]
    /\ UNCHANGED <<variant, store, req, dep, now, req2>>

\* the same step is applied to what it returned
EnforceAgain ==
    /\ call.fn \in {"ensureMergeClasses", "ensureHandlerStubs"}
    /\ call.done /\ ~call.again /\ call.res.ok
    /\ call' = [call EXCEPT
                  !.again = TRUE, !.prev = call.res.code,
                  !.res = IF call.fn = "ensureMergeClasses"
                          THEN [ok |-> TRUE, code |-> ensureMergeClasses(call.res.code),
                                err |-> ""]
                          ELSE ensureHandlerStubs(call.res.code, call.names)]
    /\ UNCHANGED <<variant, store, req, dep, now, req2>>

NextEnforce ==
    \/ CallEnsureMergeClasses
    \/ CallEnsureHandlerStubs
    \/ EnforceAgain

SpecEnforce == InitEnforce /\ [][NextEnforce]_vars

Reapplied == call.fn \in {"ensureMergeClasses", "ensureHandlerStubs"} /\ call.again

\* C22: applying ensureMergeClasses, or ensureHandlerStubs with the same
\* handler list, to its own output returns that output unchanged.
C22_EnforcerIdempotent ==
    Reapplied => call.res.ok /\ call.res.code = call.prev

C22_Witness ==
    /\ Reapplied /\ call.fn = "ensureHandlerStubs"
    /\ call.prev # call.arg /\ call.res.code = call.prev

\* C28: a handler name that the behavior lacks is given exactly one stub,
\* however often it occurs in the handler list.
C28_OneStubPerName ==
    call.fn = "ensureHandlerStubs" /\ call.done /\ ~call.again /\ call.res.ok
        => \A n \in Range(call.names) :
              ~NameThenParen(call.arg, n)
                  => Cardinality(MethodDefinitions(call.res.code, n)) = 1

(***************************************************************************)
(* Result normalization of the deploy route (lines 244-279, 498-513).  A   *)
(* result collection is absent, a single object or an array; an array      *)
(* element may be null.  Absent text fields are "" and an absent or zero   *)
(* line number is ""; created / changed are "absent", "true" or "false".   *)
(* A message is the list of its lines, a line the list of its pieces.      *)
(***************************************************************************)
GenericFailure == "Deployment failed"

\* Array.isArray(x) ? x : x ? [x] : []
Items(coll) == IF coll.shape = "absent" THEN <<>> ELSE coll.items

\* item.fileName ? `${item.fileName}${item.lineNumber ? `:${item.lineNumber}` : ''}` : ''
LocationNoLine(item) == IF item.fileName = "" THEN <<>> ELSE <<item.fileName>>

Location(item) ==
    IF item.fileName = "" THEN <<>>
    ELSE IF item.lineNumber = "" THEN <<item.fileName>>
    ELSE <<item.fileName, ":", item.lineNumber>>

\* item.problem || item.message || item.error
Problem(item) ==
    IF item.problem # "" THEN item.problem
    ELSE IF item.message # "" THEN item.message ELSE item.error

\* the value the map callback returns for a location and a problem (<<>>: null)
MessageOf(location, problem) ==
    IF location # <<>> /\ problem # "" THEN location \o <<" - ", problem>>
    ELSE IF problem # "" THEN <<problem>>
    ELSE location

FailureMessage(item) ==
    IF item.null THEN <<>> ELSE MessageOf(Location(item), Problem(item))

\* items.map(...).filter(Boolean)
FailureMessages(items) ==
    SelectSeq([k \in 1..Len(items) |-> FailureMessage(items[k])], LAMBDA m : m # <<>>)

\* messages.join('\n'), or result.errorMessage || 'Deployment failed'
JoinOrFallback(messages, errorMessage) ==
    IF Len(messages) > 0 THEN messages
    ELSE IF errorMessage # "" THEN << <<errorMessage>> >>
    ELSE << <<GenericFailure>> >>

extractDeployFailureMessage(result) ==
    JoinOrFallback(FailureMessages(Items(result.componentFailures)), result.errorMessage)

\* item?.created ?? false
OrFalse(flag) == IF flag = "absent" THEN "false" ELSE flag

SuccessEntry(item) ==
    IF item.null
    THEN [fullName |-> "", fileName |-> "", created |-> "false", changed |-> "false"]
    ELSE [fullName |-> item.fullName, fileName |-> item.fileName,
          created |-> OrFalse(item.created), changed |-> OrFalse(item.changed)]

KeepEvery(entry) == TRUE

\* .filter((entry) => entry.fullName || entry.fileName)
KeepEntry(entry) == entry.fullName # "" \/ entry.fileName # ""

normalizeComponentSuccesses(successes) ==
    SelectSeq([k \in 1..Len(Items(successes)) |-> SuccessEntry(Items(successes)[k])],
              KeepEntry)

NullItem ==
    [null |-> TRUE, fileName |-> "", lineNumber |-> "", problem |-> "", message |-> "",
     error |-> "", fullName |-> "", created |-> "absent", changed |-> "absent"]

FailureItems ==
    { [NullItem EXCEPT !.null = FALSE, !.fileName = f, !.lineNumber = l,
                       !.problem = p[1], !.message = p[2], !.error = p[3]] :
        f \in {"", "c.js"}, l \in {"", "3"},
        p \in { <<"", "", "">>, <<"p", "", "">>, <<"", "m", "">>, <<"", "", "e">>,
                <<"p", "m", "e">> } }
        \cup {NullItem}

SuccessItems ==
    { [NullItem EXCEPT !.null = FALSE, !.fullName = n, !.fileName = f,
                       !.created = c, !.changed = c] :
        n \in {"", "c"}, f \in {"", "lwc/c/c.js"}, c \in {"absent", "true", "false"} }
        \cup {NullItem}

\* the shapes a result collection built from the items S can have
Collections(S) ==
    { [shape |-> "absent", items |-> <<>>] }
        \cup { [shape |-> "one", items |-> <<i>>] : i \in S \ {NullItem} }
        \cup { [shape |-> "array", items |-> l] : l \in SeqsUpTo(S, MaxItems) }

NoCollection == [shape |-> "absent", items |-> <<>>]

\* the results a job that is done can give
DoneResults ==
    { [success |-> FALSE, componentFailures |-> c, componentSuccesses |-> NoCollection,
       errorMessage |-> e] : c \in Collections(FailureItems), e \in {"", "top"} }
        \cup
    { [success |-> TRUE, componentFailures |-> NoCollection, componentSuccesses |-> c,
       errorMessage |-> ""] : c \in Collections(SuccessItems) }

\* the job is done and its result is at hand (line 498)
InitOutcome ==
    /\ variant \in {"std", "light"}
    /\ store = STUB /\ req = Idle /\ dep = DepIdle /\ now = 0 /\ req2 = Idle
    /\ \E r \in DoneResults :
          call = [fn |-> "result", done |-> FALSE, arg |-> r, status |-> 0,
                  error |-> <<>>, successes |-> <<>>]

\* if (!result.success): res.status(502).json({ error: message || ... })
AnswerFailure ==
    /\ call.fn = "result" /\ ~call.arg.success
    /\ call' = [call EXCEPT !.fn = "extractDeployFailureMessage", !.done = TRUE,
                            !.status = 502,
                            !.error = extractDeployFailureMessage(call.arg)]
    /\ UNCHANGED <<variant, store, req, dep, now, req2>>

\* res.json({ ok: true, ..., successes })
AnswerSuccess ==
    /\ call.fn = "result" /\ call.arg.success
    /\ call' = [call EXCEPT !.fn = "normalizeComponentSuccesses", !.done = TRUE,
                            !.status = 200,
                            !.successes =
                                normalizeComponentSuccesses(call.arg.componentSuccesses)]
    /\ UNCHANGED <<variant, store, req, dep, now, req2>>

NextOutcome ==
    \/ AnswerFailure
    \/ AnswerSuccess

SpecOutcome == InitOutcome /\ [][NextOutcome]_vars

FailureAnswered == call.fn = "extractDeployFailureMessage" /\ call.done

\* the per-artifact failures the job reports
ReportedFailures == SelectSeq(Items(call.arg.componentFailures), LAMBDA i : ~i.null)

\* "<file>[:<line>]"
FileAndLine(item) ==
    <<item.fileName>> \o (IF item.lineNumber = "" THEN <<>> ELSE <<":", item.lineNumber>>)

\* "<file>[:<line>] - <problem>"
FullLine(item) == FileAndLine(item) \o <<" - ", Problem(item)>>

TopLevelOrGeneric ==
    << <<IF call.arg.errorMessage # "" THEN call.arg.errorMessage ELSE GenericFailure>> >>

\* C23 (as stated): for a done job with success = false the error message has
\* exactly one line "<file>[:<line>] - <problem>" per reported failure, in
\* order; with no reported failure it is the top-level error text, else
\* 'Deployment failed'.
C23_OneLinePerFailure ==
    FailureAnswered
        => /\ call.status = 502
           /\ IF ReportedFailures # <<>>
              THEN /\ Len(call.error) = Len(ReportedFailures)
                   /\ \A k \in 1..Len(ReportedFailures) :
                         /\ ReportedFailures[k].fileName # ""
                         /\ Problem(ReportedFailures[k]) # ""
                         /\ call.error[k] = FullLine(ReportedFailures[k])
              ELSE call.error = TopLevelOrGeneric

\* the failures that have a file name or a problem text
DescribedFailures ==
    SelectSeq(ReportedFailures, LAMBDA i : i.fileName # "" \/ Problem(i) # "")

EntryOf(item) ==
    IF item.fileName # "" /\ Problem(item) # "" THEN FullLine(item)
    ELSE IF item.fileName # "" THEN FileAndLine(item)
    ELSE <<Problem(item)>>

\* C23 (amended): the message has one entry per reported failure that has a
\* file name or a problem text, in order: "<file>[:<line>] - <problem>" when
\* it has both, else the one it has; when there is no such failure it is the
\* top-level error text, else 'Deployment failed'.
C23_OneEntryPerDescribedFailure ==
    FailureAnswered
        => /\ call.status = 502
           /\ IF DescribedFailures # <<>>
              THEN /\ Len(call.error) = Len(DescribedFailures)
                   /\ \A k \in 1..Len(DescribedFailures) :
                         call.error[k] = EntryOf(DescribedFailures[k])
              ELSE call.error = TopLevelOrGeneric

C23_Witness ==
    /\ FailureAnswered /\ Len(ReportedFailures) = 2
    /\ call.error = << <<"c.js", ":", "3", " - ", "p">>, <<"m">> >>

SuccessAnswered == call.fn = "normalizeComponentSuccesses" /\ call.done

\* the elements of the job's success collection
SuccessElements == SelectSeq(Items(call.arg.componentSuccesses), LAMBDA i : ~i.null)

\* the outcome entry of an element: its names and its two flags, a flag the
\* element lacks being false
IsEntryOf(entry, item) ==
    /\ entry.fullName = item.fullName /\ entry.fileName = item.fileName
    /\ entry.created = (IF item.created = "absent" THEN "false" ELSE item.created)
    /\ entry.changed = (IF item.changed = "absent" THEN "false" ELSE item.changed)

\* C24 (as stated): for a done job with success = true the success list has
\* exactly one entry per element of the success collection, in order; a
\* single object gives one entry and an absent collection none.
C24_OneEntryPerSuccess ==
    SuccessAnswered
        => /\ call.status = 200
           /\ Len(call.successes) = Len(SuccessElements)
           /\ \A k \in 1..Len(SuccessElements) :
                 IsEntryOf(call.successes[k], SuccessElements[k])

NamedSuccesses ==
    SelectSeq(SuccessElements, LAMBDA i : i.fullName # "" \/ i.fileName # "")

\* C24 (amended): the success list has exactly one entry per element of the
\* success collection that has a full name or a file name, in order.
C24_OneEntryPerNamedSuccess ==
    SuccessAnswered
        => /\ call.status = 200
           /\ Len(call.successes) = Len(NamedSuccesses)
           /\ \A k \in 1..Len(NamedSuccesses) :
                 IsEntryOf(call.successes[k], NamedSuccesses[k])

C24_Witness ==
    /\ SuccessAnswered /\ Len(SuccessElements) = 2 /\ Len(call.successes) = 2
    /\ call.successes[1].created = "true" /\ SuccessElements[2].created = "absent"
    /\ call.successes[2].changed = "false"

\* C27: while the store holds the stub (nothing generated or updated since
\* boot or the last reset) no archive is built and no remote call is made,
\* and a deploy request whose credentials and name were accepted and whose
\* read of the store did not fail is answered 400 with the
\* no-generated-component error.
C27_StubNeverDeployed ==
    store = STUB
        => /\ dep.zips = 0 /\ RemoteCalls = 0
           /\ DepDone /\ dep.reads > 0 /\ dep.err # ReadError
                 => Rejected400(NoComponentError)

(***************************************************************************)
(* Loads of the Artifact Store next to a store request.  A load is GET     *)
(* /api/preview or the read of POST /api/deploy: loadGeneratedPreview      *)
(* starts three fs.readFile calls at once (Promise.all) and each resolves  *)
(* on its own, so the writes of a store request in flight can fall between *)
(* them.  call is the load; call.before records the store as the store     *)
(* request now in progress found it.                                       *)
(***************************************************************************)
NoLoad ==
    [fn |-> "loadGeneratedPreview", by |-> "none", pc |-> "idle", left |-> {},
     got |-> NoBundle, status |-> 0, before |-> STUB]

InitStore ==
    /\ variant \in {"std", "light"}
    /\ store = STUB /\ req = Idle /\ dep = DepIdle /\ now = 0 /\ req2 = Idle
    /\ call = NoLoad

\* record the store a request that arrives now will find
NoteStore ==
    /\ req.pc = "idle" /\ call.before # store
    /\ call' = [call EXCEPT !.before = store]
    /\ UNCHANGED <<variant, store, req, dep, now, req2>>

StoreGenerateReceive == call.before = store /\ GenerateReceive

StorePreviewReceive == call.before = store /\ PreviewReceive(RacePreview)

StoreResetReceive == call.before = store /\ ResetReceive

\* GET /api/preview, or POST /api/deploy with credentials and name accepted,
\* calls loadGeneratedPreview: the three reads are started (lines 219-223)
LoadStart ==
    /\ call.pc = "idle"
    /\ \E by \in {"preview", "deploy"} :
          call' = [call EXCEPT !.by = by, !.pc = "reading", !.left = {"html", "js", "css"},
                              !.got = NoBundle, !.status = 0]
    /\ UNCHANGED <<variant, store, req, dep, now, req2>>

\* POST /api/deploy answers 400 before it reads the store (lines 462-469)
DeployRejected ==
    /\ call.pc = "idle"
    /\ call' = [call EXCEPT !.by = "deploy", !.pc = "responded", !.got = NoBundle,
                            !.status = 400]
    /\ UNCHANGED <<variant, store, req, dep, now, req2>>

ReadDropped(st, k, got) == got

\* what the load holds once the read of artifact k has resolved
ReadResult(st, k, got) == [got EXCEPT ![k] = st[k]]

FilesAfterReadTruncated(st, k) == [st EXCEPT ![k] = NoBundle[k]]

\* the files after fs.readFile of artifact k: as they were
FilesAfterRead(st, k) == st

\* one fs.readFile resolves with the content its file has at that moment
ReadFile ==
    /\ call.pc = "reading"
    /\ \E k \in call.left :
          /\ call' = [call EXCEPT !.got = ReadResult(store, k, call.got),
                                  !.left = call.left \ {k},
                                  !.pc = IF call.left = {k} THEN "loaded" ELSE "reading"]
          /\ store' = FilesAfterRead(store, k)
    /\ UNCHANGED <<variant, req, dep, now, req2>>

\* a read rejects: ENOENT gives null (404 / 400), anything else 500
ReadFails ==
    /\ call.pc = "reading"
    /\ \E enoent \in BOOLEAN :
          call' = [call EXCEPT !.pc = "responded", !.got = NoBundle,
                              !.status = IF ~enoent THEN 500
                                         ELSE IF call.by = "preview" THEN 404 ELSE 400]
    /\ UNCHANGED <<variant, store, req, dep, now, req2>>

\* res.json({ ok: true, code: files })    (line 430)
PreviewAnswer ==
    /\ call.pc = "loaded" /\ call.by = "preview"
    /\ call' = [call EXCEPT !.pc = "responded", !.status = 200]
    /\ UNCHANGED <<variant, store, req, dep, now, req2>>

\* buildLwcDeployZip(normalizedBundleName, files, ...)    (line 488)
DeployPackage ==
    /\ call.pc = "loaded" /\ call.by = "deploy"
    /\ call' = [call EXCEPT !.pc = "packaged"]
    /\ UNCHANGED <<variant, store, req, dep, now, req2>>

\* login, submit and wait end in success (200), a failed job (502), or a
\* login / submit failure or a timeout (500)    (lines 489-518)
DeployAnswer ==
    /\ call.pc = "packaged"
    /\ \E status \in {200, 502, 500} :
          call' = [call EXCEPT !.pc = "responded", !.status = status]
    /\ UNCHANGED <<variant, store, req, dep, now, req2>>

LoadFinish ==
    /\ call.pc = "responded"
    /\ call' = [call EXCEPT !.by = "none", !.pc = "idle", !.got = NoBundle, !.status = 0]
    /\ UNCHANGED <<variant, store, req, dep, now, req2>>

NextStore ==
    \/ NoteStore
    \/ StoreGenerateReceive
    \/ GenerateAiFails
    \/ GenerateReply(RaceGen)
    \/ StorePreviewReceive
    \/ StoreResetReceive
    \/ Mkdir
    \/ WriteFile
    \/ IoFails
    \/ SendOk
    \/ Finish
    \/ LoadStart
    \/ DeployRejected
    \/ ReadFile
    \/ ReadFails
    \/ PreviewAnswer
    \/ DeployPackage
    \/ DeployAnswer
    \/ LoadFinish

SpecStore == InitStore /\ [][NextStore]_vars

\* the bundles a single request can persist in full, and the stub
WholeBundles ==
    {STUB} \cup { GenPipeline(variant, g).out : g \in RaceGen }
           \cup { PreviewPipeline(variant, b).out : b \in RacePreview }

\* the load has returned its three artifacts to the route
Loaded == call.pc \in {"loaded", "packaged"} \/ (call.pc = "responded" /\ call.status = 200)

\* C25 (as stated): every bundle a load returns, to GET /api/preview or to
\* a deploy request that packages it, is the stub or a bundle that one
\* request persisted in full.
C25_LoadReturnsWholeBundle ==
    call.fn = "loadGeneratedPreview" /\ Loaded => call.got \in WholeBundles

\* C25 (amended): each of the three artifacts a load returns is the stub's
\* or one that some request persisted.
C25_LoadReturnsPersistedArtifacts ==
    call.fn = "loadGeneratedPreview" /\ Loaded
        => /\ call.got.html \in { b.html : b \in WholeBundles }
           /\ call.got.js \in { b.js : b \in WholeBundles }
           /\ call.got.css \in { b.css : b \in WholeBundles }

\* a deploy packages markup of one persist with behavior of another
C25_Witness ==
    /\ call.fn = "loadGeneratedPreview" /\ call.pc = "packaged"
    /\ call.got \notin WholeBundles
    /\ call.got.html # STUB.html /\ call.got.js = STUB.js

\* the store request was answered after fs.mkdir or fs.writeFile rejected
IoFailed ==
    /\ call.fn = "loadGeneratedPreview"
    /\ req.pc = "responded" /\ req.err = IoErrorMessage(req.kind)

\* C26 (as stated): a store request whose persisting fails with an I/O
\* error is answered with a server error and the store is as it was before
\* the request.
C26_FailedPersistLeavesStore ==
    IoFailed => req.status = 500 /\ store = call.before

\* C26 (amended): such a request is answered with a server error; the
\* artifacts whose writes had completed hold the request's content and the
\* others are as before the request.
C26_FailedPersistKeepsCompletedWrites ==
    IoFailed
        => /\ req.status = 500
           /\ \A k \in {"html", "js", "css"} :
                 store[k] = IF k \in Range(req.written) THEN req.out[k] ELSE call.before[k]

C26_Witness ==
    /\ IoFailed /\ req.kind = "generate" /\ req.written = <<"html", "js">>
    /\ store # call.before /\ store.css = call.before.css

\* C29: no step of a GET /api/preview or of a deploy request changes the
\* store, whatever the request's outcome.
C29_LoadsLeaveStore ==
    [][call' # call /\ call'.before = call.before => store' = store]_vars

C29_Witness ==
    /\ call.fn = "loadGeneratedPreview" /\ call.by = "deploy"
    /\ call.pc = "responded" /\ call.status = 502
    /\ store # STUB /\ req.pc = "idle" /\ call.got = store

(***************************************************************************)
(* The shell UI's deploy dialog (shell.js).  call holds the component's    *)
(* fields and the deploy requests that submitDeployment has sent and that  *)
(* have not settled: "fetch" while fetch() is pending, "json" while        *)
(* response.json() is pending.                                             *)
(***************************************************************************)
ShellCredsError == "Username and password are required."

ShellNameError == "Component name must start with a lowercase letter and can contain only letters, numbers, or underscores."

ShellTargetsError == "Select at least one target for the component."

ShellServerError == "Deployment failed."

ShellNetworkError == "Deployment failed. Check API server logs."

NewShell ==
    [fn |-> "shell", deploying |-> FALSE, showDeployModal |-> FALSE, generating |-> FALSE,
     hasCode |-> FALSE, deployError |-> "", requests |-> <<>>]

InitShell ==
    /\ variant \in {"std", "light"}
    /\ store = STUB /\ req = Idle /\ dep = DepIdle /\ now = 0 /\ req2 = Idle
    /\ call = NewShell

\* get isDeployDisabled()
isDeployDisabled(c) == c.deploying \/ c.generating \/ ~c.hasCode

SubmitNeverBlocked(c) == FALSE

\* if (this.deploying) return;    (submitDeployment, line 813)
SubmitBlocked(c) == c.deploying

\* a generation starts, or ends leaving code or none
GenerationToggles ==
    /\ \/ ~call.generating /\ call' = [call EXCEPT !.generating = TRUE]
       \/ /\ call.generating
          /\ \E code \in BOOLEAN : call' = [call EXCEPT !.generating = FALSE, !.hasCode = code]
    /\ UNCHANGED <<variant, store, req, dep, now, req2>>

openDeployModal ==
    /\ call' = IF isDeployDisabled(call) THEN call
               ELSE [call EXCEPT !.deployError = "", !.showDeployModal = TRUE]
    /\ UNCHANGED <<variant, store, req, dep, now, req2>>

\* what closeDeployModal leaves of the component c
AfterClose(c) ==
    IF c.deploying THEN c ELSE [c EXCEPT !.showDeployModal = FALSE, !.deployError = ""]

\* closeDeployModal, also reached from handleDeployBackdropClick
closeDeployModal ==
    /\ call' = AfterClose(call)
    /\ UNCHANGED <<variant, store, req, dep, now, req2>>

\* handleDeployInput / toggleDeployTarget
handleDeployInput ==
    /\ call' = [call EXCEPT !.deployError = ""]
    /\ UNCHANGED <<variant, store, req, dep, now, req2>>

\* submitDeployment up to its first await: the form checks, then the request
submitDeployment ==
    /\ Len(call.requests) < MaxInFlight
    /\ \E form \in {ShellCredsError, ShellNameError, ShellTargetsError, ""} :
          call' = IF SubmitBlocked(call) THEN call
                  ELSE IF form # "" THEN [call EXCEPT !.deployError = form]
                  ELSE [call EXCEPT !.deployError = "", !.deploying = TRUE,
                                    !.requests = Append(@, "fetch")]
    /\ UNCHANGED <<variant, store, req, dep, now, req2>>

Without(requests, i) == SubSeq(requests, 1, i - 1) \o SubSeq(requests, i + 1, Len(requests))

\* fetch() resolves with a response; response.json() is awaited
FetchResolves ==
    /\ \E i \in 1..Len(call.requests) :
          /\ call.requests[i] = "fetch"
          /\ call' = [call EXCEPT !.requests[i] = "json"]
    /\ UNCHANGED <<variant, store, req, dep, now, req2>>

\* fetch() rejects: catch, then finally    (lines 867-871)
FetchRejects ==
    /\ \E i \in 1..Len(call.requests) :
          /\ call.requests[i] = "fetch"
          /\ call' = [call EXCEPT !.requests = Without(@, i),
                                  !.deployError = ShellNetworkError, !.deploying = FALSE]
    /\ UNCHANGED <<variant, store, req, dep, now, req2>>

\* response.json() settles; the response is an error response (or has no
\* JSON body), or a success    (lines 847-866, 869-871)
ResponseHandled ==
    /\ \E i \in 1..Len(call.requests) : \E ok \in BOOLEAN :
          /\ call.requests[i] = "json"
          /\ call' = IF ~ok
                     THEN [call EXCEPT !.requests = Without(@, i),
                                       !.deployError = ShellServerError,
                                       !.deploying = FALSE]
                     ELSE AfterClose([call EXCEPT !.requests = Without(@, i),
                                                  !.deploying = FALSE])
    /\ UNCHANGED <<variant, store, req, dep, now, req2>>

NextShell ==
    \/ GenerationToggles
    \/ openDeployModal
    \/ closeDeployModal
    \/ handleDeployInput
    \/ submitDeployment
    \/ FetchResolves
    \/ FetchRejects
    \/ ResponseHandled

SpecShell == InitShell /\ [][NextShell]_vars

InFlight == IF call.fn = "shell" THEN Len(call.requests) ELSE 0

\* C30: at most one deploy request is in flight and deploying is true while
\* it is; while a request stays in flight the modal is not closed; and when
\* a request settles deploying is false.
C30_DeployingExcludes ==
    /\ [](InFlight <= 1 /\ (InFlight > 0 => call.deploying))
    /\ [][InFlight > 0 /\ Len(call'.requests) > 0
            => call'.showDeployModal = call.showDeployModal]_vars
    /\ [][InFlight > 0 /\ Len(call'.requests) < InFlight => ~call'.deploying]_vars

C30_Witness ==
    /\ call.fn = "shell" /\ call.requests = <<"json">> /\ call.deploying
    /\ call.showDeployModal

====
